---- MODULE Spec2Model ----
(***************************************************************************)
(* Order-book engine of the ITCH 5.0 feed handler: object pool, order-id   *)
(* hash index (linear probing), intrusive price levels, per-symbol book    *)
(* with cached BBO, and the feed handler callbacks that drive the books.   *)
(*                                                                         *)
(* Pointers to Order are slot numbers of the pool's storage; NULL is the   *)
(* null pointer.  Order::timestamp, Order::stock_locate and                *)
(* Order::original_qty are written by add_order and read by nothing in the *)
(* book, so they are not carried.                                          *)
(***************************************************************************)
EXTENDS Integers, Sequences, FiniteSets, TLC

\* ------------------------------------------------------------------------
\* Sizes.  The code's sizes (4096-slot blocks, 100000-entry index, 32-bit
\* quantities) are scaled down so that pool growth, index resize, probe
\* wrap-around and quantity wrap-around all occur with a few orders.
\* ------------------------------------------------------------------------
BlockSize == 1
InitialCapacity == 2
\* Quantity is an unsigned integer type: values are 0 .. QtyMod - 1 and
\* every Quantity computation wraps modulo QtyMod.
QtyMod == 4
MaxPrice == 2
\* OrderBookManager::MAX_SYMBOLS (8192 in the code)
MAX_SYMBOLS == 2
\* number of messages fed to a FeedHandler
MaxMessages == 3

NULL == 0
\* std::numeric_limits<Price>::max()
PriceMax == 2147483647

\* order ids; they collide in the index (3 and 7 are equal modulo 2 and 4)
Ids == {3, 7}
Sides == {"B", "S"}
Prices == 1..MaxPrice
Quantities == 0..(QtyMod - 1)
\* stock_locate and shares values of the messages fed to a FeedHandler
Locates == 1..(MAX_SYMBOLS - 1)
Shares == {1, 2}

\* ------------------------------------------------------------------------
\* ObjectPool<Order>
\* ------------------------------------------------------------------------
\* Contents of a slot the caller does not hold: a slot of a freshly
\* allocated block (new T[BlockSize] with a defaulted constructor, fields
\* indeterminate) or a released slot (which must not be accessed).  It has
\* none of Order's fields, so a read of a field of such a slot stops the
\* evaluation instead of yielding a stale value.
Indeterminate == [indeterminate |-> TRUE]

ObjectPool_capacity(pool) == pool.blocks_ * BlockSize

ObjectPool_available(pool) == Len(pool.free_list_)

allocate_block(pool) ==
    LET base == pool.blocks_ * BlockSize IN
    [blocks_    |-> pool.blocks_ + 1,
     free_list_ |-> pool.free_list_ \o [i \in 1..BlockSize |-> base + i],
     store      |-> [s \in 1..(base + BlockSize) |->
                        IF s <= base THEN pool.store[s] ELSE Indeterminate]]

\* ObjectPool(): one block is allocated by the constructor.
ObjectPool_new ==
    allocate_block([blocks_ |-> 0, free_list_ |-> <<>>, store |-> <<>>])

\* acquire that hands out the back of the free list and leaves it there
acquire_NoPop(pool) ==
    LET p == IF pool.free_list_ = <<>> THEN allocate_block(pool) ELSE pool
    IN [pool |-> p, obj |-> p.free_list_[Len(p.free_list_)]]

acquire(pool) ==
    LET p == IF pool.free_list_ = <<>> THEN allocate_block(pool) ELSE pool
        n == Len(p.free_list_)
    IN [pool |-> [p EXCEPT !.free_list_ = SubSeq(p.free_list_, 1, n - 1)],
        obj  |-> p.free_list_[n]]

release(pool, obj) ==
    [pool EXCEPT !.free_list_ = Append(@, obj), !.store[obj] = Indeterminate]

\* ------------------------------------------------------------------------
\* OrderMap: open addressing, linear probing, id 0 marks an empty entry
\* ------------------------------------------------------------------------
EmptyEntry == [id |-> 0, order |-> NULL]

hash(id) == id

\* x & mask_ where mask_ = capacity_ - 1 and capacity_ is a power of two
BitAnd(x, mask) == x % (mask + 1)

RECURSIVE PowerOfTwoAtLeast(_, _)
PowerOfTwoAtLeast(cap, new_cap) ==
    IF cap < new_cap THEN PowerOfTwoAtLeast(cap * 2, new_cap) ELSE cap

\* the probing loop shared by put and resize: first empty entry from idx
RECURSIVE probe_empty(_, _, _)
probe_empty(entries, mask, idx) ==
    IF entries[idx].id # 0
    THEN probe_empty(entries, mask, BitAnd(idx + 1, mask))
    ELSE idx

RECURSIVE reinsert(_, _, _)
reinsert(m, old_entries, i) ==
    IF i >= Len(old_entries) THEN m
    ELSE LET e == old_entries[i + 1] IN
         IF e.id # 0
         THEN LET idx == probe_empty(m.entries_, m.mask_, BitAnd(hash(e.id), m.mask_)) IN
              reinsert([m EXCEPT !.entries_[idx] = e, !.load_ = @ + 1],
                       old_entries, i + 1)
         ELSE reinsert(m, old_entries, i + 1)

\* old_entries is the entry vector as a sequence (index i of the vector is
\* element i + 1).
resize(old_entries, new_cap) ==
    LET cap == PowerOfTwoAtLeast(1, new_cap) IN
    reinsert([entries_  |-> [i \in 0..(cap - 1) |-> EmptyEntry],
              capacity_ |-> cap,
              mask_     |-> cap - 1,
              load_     |-> 0],
             old_entries, 0)

EntriesSeq(m) == [i \in 1..m.capacity_ |-> m.entries_[i - 1]]

OrderMap_new(initial_capacity) == resize(<<>>, initial_capacity)

RECURSIVE find_loop(_, _, _)
find_loop(m, id, idx) ==
    IF m.entries_[idx].id # 0
    THEN IF m.entries_[idx].id = id
         THEN m.entries_[idx].order
         ELSE find_loop(m, id, BitAnd(idx + 1, m.mask_))
    ELSE NULL

find(m, id) == find_loop(m, id, BitAnd(hash(id), m.mask_))

\* put that never resizes the table
put_NoResize(m, id, order) ==
    LET idx == probe_empty(m.entries_, m.mask_, BitAnd(hash(id), m.mask_))
    IN [m EXCEPT !.entries_[idx] = [id |-> id, order |-> order],
                 !.load_ = @ + 1]

put(m, id, order) ==
    LET m1  == IF m.load_ * 2 >= m.capacity_
               THEN resize(EntriesSeq(m), m.capacity_ * 2)
               ELSE m
        idx == probe_empty(m1.entries_, m1.mask_, BitAnd(hash(id), m1.mask_))
    IN [m1 EXCEPT !.entries_[idx] = [id |-> id, order |-> order],
                  !.load_ = @ + 1]

\* remove that clears the entry and shifts nothing back
backshift_NoShift(m, curr, next) == m

\* backward shift that forgets the clusters wrapping around the table's end
RECURSIVE backshift_NoWrap(_, _, _)
backshift_NoWrap(m, curr, next) ==
    IF m.entries_[next].id # 0
    THEN LET desired == BitAnd(hash(m.entries_[next].id), m.mask_) IN
         IF ~ (curr < next /\ (desired <= curr \/ desired > next))
         THEN backshift_NoWrap(m, curr, BitAnd(next + 1, m.mask_))
         ELSE backshift_NoWrap([m EXCEPT !.entries_[curr] = m.entries_[next],
                                         !.entries_[next].id = 0],
                               next, BitAnd(next + 1, m.mask_))
    ELSE m

\* the backward shift after entry curr has been cleared
RECURSIVE backshift(_, _, _)
backshift(m, curr, next) ==
    IF m.entries_[next].id # 0
    THEN LET desired == BitAnd(hash(m.entries_[next].id), m.mask_) IN
         IF ~ (   (curr < next /\ (desired <= curr \/ desired > next))
               \/ (curr > next /\ (desired <= curr /\ desired > next)))
         THEN backshift(m, curr, BitAnd(next + 1, m.mask_))
         ELSE backshift([m EXCEPT !.entries_[curr] = m.entries_[next],
                                  !.entries_[next].id = 0],
                        next, BitAnd(next + 1, m.mask_))
    ELSE m

RECURSIVE remove_loop(_, _, _)
remove_loop(m, id, idx) ==
    IF m.entries_[idx].id # 0
    THEN IF m.entries_[idx].id = id
         THEN backshift([m EXCEPT !.entries_[idx].id = 0, !.load_ = @ - 1],
                        idx, BitAnd(idx + 1, m.mask_))
         ELSE remove_loop(m, id, BitAnd(idx + 1, m.mask_))
    ELSE m

\* remove that leaves the map as it is
remove_Nothing(m, id) == m

remove(m, id) == remove_loop(m, id, BitAnd(hash(id), m.mask_))

\* ------------------------------------------------------------------------
\* PriceLevel: intrusive doubly-linked list with cached totals.  The
\* operations touch the links of Order records, so they take and return
\* the pool's storage.
\* ------------------------------------------------------------------------
PriceLevel(price) ==
    [price_ |-> price, head_ |-> NULL, tail_ |-> NULL,
     total_quantity_ |-> 0, order_count_ |-> 0]

\* add_order that links the new order in front of the head
PriceLevel_add_order_AtHead(level, store, order) ==
    LET s1 == [store EXCEPT ![order].next = level.head_, ![order].prev = NULL]
        s2 == IF level.head_ # NULL
              THEN [s1 EXCEPT ![level.head_].prev = order]
              ELSE s1
    IN [level |-> [level EXCEPT
                      !.tail_ = IF level.head_ # NULL THEN @ ELSE order,
                      !.head_ = order,
                      !.total_quantity_ = (@ + s2[order].quantity) % QtyMod,
                      !.order_count_ = @ + 1],
        store |-> s2]

PriceLevel_add_order(level, store, order) ==
    LET s1 == [store EXCEPT ![order].prev = level.tail_, ![order].next = NULL]
        s2 == IF level.tail_ # NULL
              THEN [s1 EXCEPT ![level.tail_].next = order]
              ELSE s1
    IN [level |-> [level EXCEPT
                      !.head_ = IF level.tail_ # NULL THEN @ ELSE order,
                      !.tail_ = order,
                      !.total_quantity_ = (@ + s2[order].quantity) % QtyMod,
                      !.order_count_ = @ + 1],
        store |-> s2]

\* remove_order that unlinks the order and leaves order_count_ as it was
remove_order_KeepsCount(level, store, order) ==
    LET o  == store[order]
        s1 == IF o.prev # NULL
              THEN [store EXCEPT ![o.prev].next = o.next]
              ELSE store
        s2 == IF o.next # NULL
              THEN [s1 EXCEPT ![o.next].prev = o.prev]
              ELSE s1
    IN [level |-> [level EXCEPT
                      !.total_quantity_ = (@ - o.quantity) % QtyMod,
                      !.head_ = IF o.prev # NULL THEN @ ELSE o.next,
                      !.tail_ = IF o.next # NULL THEN @ ELSE o.prev],
        store |-> [s2 EXCEPT ![order].next = NULL, ![order].prev = NULL]]

remove_order(level, store, order) ==
    LET o  == store[order]
        s1 == IF o.prev # NULL
              THEN [store EXCEPT ![o.prev].next = o.next]
              ELSE store
        s2 == IF o.next # NULL
              THEN [s1 EXCEPT ![o.next].prev = o.prev]
              ELSE s1
    IN [level |-> [level EXCEPT
                      !.total_quantity_ = (@ - o.quantity) % QtyMod,
                      !.order_count_ = @ - 1,
                      !.head_ = IF o.prev # NULL THEN @ ELSE o.next,
                      !.tail_ = IF o.next # NULL THEN @ ELSE o.prev],
        store |-> [s2 EXCEPT ![order].next = NULL, ![order].prev = NULL]]

\* assert(order->quantity >= delta) is recorded in assert_ok.
reduce_quantity(level, store, order, delta) ==
    LET s1 == [store EXCEPT ![order].quantity = (@ - delta) % QtyMod]
        l1 == [level EXCEPT !.total_quantity_ = (@ - delta) % QtyMod]
        r  == IF s1[order].quantity = 0
              THEN remove_order(l1, s1, order)
              ELSE [level |-> l1, store |-> s1]
    IN [level |-> r.level, store |-> r.store,
        assert_ok |-> store[order].quantity >= delta]

\* empty() that never reports an empty level
PriceLevel_empty_Never(level) == FALSE

PriceLevel_empty(level) == level.order_count_ = 0

\* ------------------------------------------------------------------------
\* BBO
\* ------------------------------------------------------------------------
BBO_new ==
    [bid_price |-> 0, ask_price |-> PriceMax,
     bid_quantity |-> 0, ask_quantity |-> 0]

has_bid(bbo) == bbo.bid_quantity > 0

has_ask(bbo) == bbo.ask_quantity > 0

\* ------------------------------------------------------------------------
\* OrderBook.  bids_ and asks_ are std::map<Price, PriceLevel>: functions
\* whose domain is the set of keys; begin() is the greatest key of bids_
\* (std::greater) and the least key of asks_ (std::less).
\* ------------------------------------------------------------------------
EmptyMap == [p \in {} |-> PriceLevel(p)]

map_set(map, key, level) ==
    [p \in (DOMAIN map) \cup {key} |-> IF p = key THEN level ELSE map[p]]

map_erase(map, key) == [p \in (DOMAIN map) \ {key} |-> map[p]]

bids_begin(bids) == CHOOSE p \in DOMAIN bids : \A q \in DOMAIN bids : q <= p

asks_begin(asks) == CHOOSE p \in DOMAIN asks : \A q \in DOMAIN asks : p <= q

is_buy(side) == side = "B"

OrderBook(stock_locate) ==
    [stock_locate_ |-> stock_locate,
     bids_         |-> EmptyMap,
     asks_         |-> EmptyMap,
     orders_       |-> OrderMap_new(InitialCapacity),
     bbo_          |-> BBO_new,
     order_count_  |-> 0]

\* update_best_bid that leaves the cached bid untouched when no bid is left
update_best_bid_NoReset(book) ==
    IF DOMAIN book.bids_ = {}
    THEN book
    ELSE LET best == book.bids_[bids_begin(book.bids_)] IN
         [book EXCEPT !.bbo_.bid_price = best.price_,
                      !.bbo_.bid_quantity = best.total_quantity_]

update_best_bid(book) ==
    IF DOMAIN book.bids_ = {}
    THEN [book EXCEPT !.bbo_.bid_price = 0, !.bbo_.bid_quantity = 0]
    ELSE LET best == book.bids_[bids_begin(book.bids_)] IN
         [book EXCEPT !.bbo_.bid_price = best.price_,
                      !.bbo_.bid_quantity = best.total_quantity_]

update_best_ask(book) ==
    IF DOMAIN book.asks_ = {}
    THEN [book EXCEPT !.bbo_.ask_price = PriceMax, !.bbo_.ask_quantity = 0]
    ELSE LET best == book.asks_[asks_begin(book.asks_)] IN
         [book EXCEPT !.bbo_.ask_price = best.price_,
                      !.bbo_.ask_quantity = best.total_quantity_]

get_order(book, order_id) == find(book.orders_, order_id)

\* add_order without the duplicate check
add_order_NoDuplicateCheck(book, pool, order_id, side, price, quantity) ==
      LET a     == acquire(pool)
          order == a.obj
          st    == [a.pool.store EXCEPT ![order] =
                      [order_id |-> order_id, price |-> price,
                       quantity |-> quantity,
                       side |-> side, next |-> NULL, prev |-> NULL]]
          b1    == [book EXCEPT !.orders_ = put(@, order_id, order)]
          map   == IF is_buy(side) THEN b1.bids_ ELSE b1.asks_
          lv    == IF price \in DOMAIN map THEN map[price] ELSE PriceLevel(price)
          r     == PriceLevel_add_order(lv, st, order)
          b2    == IF is_buy(side)
                   THEN update_best_bid([b1 EXCEPT !.bids_ = map_set(@, price, r.level)])
                   ELSE update_best_ask([b1 EXCEPT !.asks_ = map_set(@, price, r.level)])
      IN [book |-> [b2 EXCEPT !.order_count_ = @ + 1],
          pool |-> [a.pool EXCEPT !.store = r.store],
          ret  |-> order]

\* Every book operation takes the book and the pool and returns both with
\* the call's return value.
add_order(book, pool, order_id, side, price, quantity) ==
    IF find(book.orders_, order_id) # NULL
    THEN [book |-> book, pool |-> pool, ret |-> NULL]
    ELSE
      LET a     == acquire(pool)
          order == a.obj
          st    == [a.pool.store EXCEPT ![order] =
                      [order_id |-> order_id, price |-> price,
                       quantity |-> quantity,
                       side |-> side, next |-> NULL, prev |-> NULL]]
          b1    == [book EXCEPT !.orders_ = put(@, order_id, order)]
          map   == IF is_buy(side) THEN b1.bids_ ELSE b1.asks_
          lv    == IF price \in DOMAIN map THEN map[price] ELSE PriceLevel(price)
          r     == PriceLevel_add_order(lv, st, order)
          b2    == IF is_buy(side)
                   THEN update_best_bid([b1 EXCEPT !.bids_ = map_set(@, price, r.level)])
                   ELSE update_best_ask([b1 EXCEPT !.asks_ = map_set(@, price, r.level)])
      IN [book |-> [b2 EXCEPT !.order_count_ = @ + 1],
          pool |-> [a.pool EXCEPT !.store = r.store],
          ret  |-> order]

\* min that returns its first argument
Min_First(a, b) == a

Min(a, b) == IF a < b THEN a ELSE b

execute_order(book, pool, order_id, quantity) ==
    LET order == find(book.orders_, order_id) IN
    IF order = NULL
    THEN [book |-> book, pool |-> pool, ret |-> 0, assert_ok |-> TRUE]
    ELSE
      LET exec_qty == Min(quantity, pool.store[order].quantity)
          side     == pool.store[order].side
          price    == pool.store[order].price
          map      == IF is_buy(side) THEN book.bids_ ELSE book.asks_
          found    == price \in DOMAIN map
          r        == IF found
                      THEN reduce_quantity(map[price], pool.store, order, exec_qty)
                      ELSE [level |-> NULL, store |-> pool.store, assert_ok |-> TRUE]
          map1     == IF found
                      THEN IF PriceLevel_empty(r.level)
                           THEN map_erase(map, price)
                           ELSE map_set(map, price, r.level)
                      ELSE map
          b1       == IF is_buy(side)
                      THEN update_best_bid([book EXCEPT !.bids_ = map1])
                      ELSE update_best_ask([book EXCEPT !.asks_ = map1])
          p1       == [pool EXCEPT !.store = r.store]
      IN IF r.store[order].quantity = 0
         THEN [book |-> [b1 EXCEPT !.orders_ = remove(@, order_id),
                                   !.order_count_ = @ - 1],
               pool |-> release(p1, order),
               ret  |-> exec_qty, assert_ok |-> r.assert_ok]
         ELSE [book |-> b1, pool |-> p1, ret |-> exec_qty,
               assert_ok |-> r.assert_ok]

\* cancel_order that always cancels the whole order
cancel_order_WholeOrder(book, pool, order_id, quantity) ==
    execute_order(book, pool, order_id, QtyMod - 1)

cancel_order(book, pool, order_id, quantity) ==
    execute_order(book, pool, order_id, quantity)

\* delete_order that takes one share off the order
delete_order_OneShare(book, pool, order_id) ==
    LET r == execute_order(book, pool, order_id, 1) IN
    [book |-> r.book, pool |-> r.pool, ret |-> find(book.orders_, order_id) # NULL]

delete_order(book, pool, order_id) ==
    LET order == find(book.orders_, order_id) IN
    IF order = NULL
    THEN [book |-> book, pool |-> pool, ret |-> FALSE]
    ELSE
      LET side  == pool.store[order].side
          price == pool.store[order].price
          map   == IF is_buy(side) THEN book.bids_ ELSE book.asks_
          found == price \in DOMAIN map
          r     == IF found
                   THEN remove_order(map[price], pool.store, order)
                   ELSE [level |-> NULL, store |-> pool.store]
          map1  == IF found
                   THEN IF PriceLevel_empty(r.level)
                        THEN map_erase(map, price)
                        ELSE map_set(map, price, r.level)
                   ELSE map
          b1    == IF is_buy(side)
                   THEN update_best_bid([book EXCEPT !.bids_ = map1])
                   ELSE update_best_ask([book EXCEPT !.asks_ = map1])
      IN [book |-> [b1 EXCEPT !.orders_ = remove(@, order_id),
                              !.order_count_ = @ - 1],
          pool |-> release([pool EXCEPT !.store = r.store], order),
          ret  |-> TRUE]

\* replace_order that adds the new order on the buy side
replace_order_ForgetsSide(book, pool, old_order_id, new_order_id, new_quantity, new_price) ==
    LET old_order == find(book.orders_, old_order_id) IN
    IF old_order = NULL
    THEN [book |-> book, pool |-> pool, ret |-> NULL]
    ELSE LET d == delete_order(book, pool, old_order_id)
         IN add_order(d.book, d.pool, new_order_id, "B", new_price, new_quantity)

replace_order(book, pool, old_order_id, new_order_id, new_quantity, new_price) ==
    LET old_order == find(book.orders_, old_order_id) IN
    IF old_order = NULL
    THEN [book |-> book, pool |-> pool, ret |-> NULL]
    ELSE LET side == pool.store[old_order].side
             d    == delete_order(book, pool, old_order_id)
         IN add_order(d.book, d.pool, new_order_id, side, new_price, new_quantity)

\* ------------------------------------------------------------------------
\* OrderBookManager: books_ is a vector of MAX_SYMBOLS default-constructed
\* books (stock_locate_ = 0) and one pool shared by all of them.
\* ------------------------------------------------------------------------
OrderBookManager_new ==
    [books_      |-> [i \in 0..(MAX_SYMBOLS - 1) |-> OrderBook(0)],
     order_pool_ |-> ObjectPool_new]

get_book(mgr, stock_locate) ==
    IF mgr.books_[stock_locate].stock_locate_ = 0
    THEN [mgr EXCEPT !.books_[stock_locate] = OrderBook(stock_locate)]
    ELSE mgr

has_book(mgr, stock_locate) ==
    /\ stock_locate < MAX_SYMBOLS
    /\ mgr.books_[stock_locate].stock_locate_ # 0

RECURSIVE Sum(_, _)
Sum(f, keys) ==
    IF keys = {} THEN 0
    ELSE LET k == CHOOSE x \in keys : TRUE IN f[k] + Sum(f, keys \ {k})

total_order_count(mgr) ==
    Sum([i \in DOMAIN mgr.books_ |-> mgr.books_[i].order_count_], DOMAIN mgr.books_)

OrderMap_clear(m) ==
    [m EXCEPT !.entries_ = [i \in DOMAIN m.entries_ |-> EmptyEntry], !.load_ = 0]

\* the while loop of OrderBook::clear over one level's list
RECURSIVE release_list(_, _)
release_list(pool, curr) ==
    IF curr = NULL THEN pool
    ELSE LET next == pool.store[curr].next IN release_list(release(pool, curr), next)

\* the for loop of OrderBook::clear over one side, best price first
RECURSIVE release_levels(_, _, _)
release_levels(pool, map, buy) ==
    IF DOMAIN map = {} THEN pool
    ELSE LET p == IF buy THEN bids_begin(map) ELSE asks_begin(map) IN
         release_levels(release_list(pool, map[p].head_), map_erase(map, p), buy)

\* OrderBook::clear that walks the bid levels only
OrderBook_clear_BidsOnly(book, pool) ==
    [book |-> [book EXCEPT !.bids_ = EmptyMap, !.asks_ = EmptyMap,
                           !.orders_ = OrderMap_clear(@), !.bbo_ = BBO_new,
                           !.order_count_ = 0],
     pool |-> release_levels(pool, book.bids_, TRUE)]

OrderBook_clear(book, pool) ==
    [book |-> [book EXCEPT !.bids_ = EmptyMap, !.asks_ = EmptyMap,
                           !.orders_ = OrderMap_clear(@), !.bbo_ = BBO_new,
                           !.order_count_ = 0],
     pool |-> release_levels(release_levels(pool, book.bids_, TRUE),
                             book.asks_, FALSE)]

RECURSIVE clear_books(_, _)
clear_books(mgr, i) ==
    IF i >= MAX_SYMBOLS THEN mgr
    ELSE LET r == OrderBook_clear(mgr.books_[i], mgr.order_pool_) IN
         clear_books([books_      |-> [mgr.books_ EXCEPT ![i] = r.book],
                      order_pool_ |-> r.pool], i + 1)

OrderBookManager_clear(mgr) == clear_books(mgr, 0)

\* the loop shared by bid_depth and ask_depth: map is what is left to
\* iterate, in the order of the bids (buy) or of the asks
RECURSIVE depth_loop(_, _, _)
depth_loop(map, buy, max_levels) ==
    IF DOMAIN map = {} \/ max_levels = 0 THEN <<>>
    ELSE LET p == IF buy THEN bids_begin(map) ELSE asks_begin(map) IN
         <<[price       |-> map[p].price_,
            quantity    |-> map[p].total_quantity_,
            order_count |-> map[p].order_count_]>>
         \o depth_loop(map_erase(map, p), buy, max_levels - 1)

\* bid_depth that iterates the bids in the order of the asks
bid_depth_Ascending(book, max_levels) == depth_loop(book.bids_, FALSE, max_levels)

bid_depth(book, max_levels) == depth_loop(book.bids_, TRUE, max_levels)

ask_depth(book, max_levels) == depth_loop(book.asks_, FALSE, max_levels)

\* ------------------------------------------------------------------------
\* SymbolDirectory: symbols_ is the vector indexed by locate,
\* symbol_to_locate_ the unordered_map from the 8 symbol bytes
\* ------------------------------------------------------------------------
\* a value-initialized SymbolInfo, what vector::resize appends
SymbolInfo_new ==
    [symbol |-> <<0, 0, 0, 0, 0, 0, 0, 0>>, market_category |-> 0,
     financial_status |-> 0, is_active |-> FALSE]

SymbolDirectory_new ==
    [symbols_ |-> <<>>, symbol_to_locate_ |-> [sym \in {} |-> 0]]

nullopt == [has_value |-> FALSE]

\* element i of the vector is symbols_[i + 1]
add_symbol(dir, locate, symbol_str, market_category, financial_status) ==
    LET info  == [symbol |-> symbol_str, market_category |-> market_category,
                  financial_status |-> financial_status, is_active |-> TRUE]
        n     == Len(dir.symbols_)
        grown == IF locate >= n
                 THEN dir.symbols_ \o [i \in 1..(locate + 1 - n) |-> SymbolInfo_new]
                 ELSE dir.symbols_
    IN [symbols_          |-> [grown EXCEPT ![locate + 1] = info],
        symbol_to_locate_ |-> [sym \in DOMAIN dir.symbol_to_locate_ \cup {symbol_str} |->
                                 IF sym = symbol_str THEN locate
                                 ELSE dir.symbol_to_locate_[sym]]]

\* the pointer &symbols_[locate] is the position locate + 1 in symbols_
get_info(dir, locate) ==
    IF locate >= Len(dir.symbols_) THEN NULL
    ELSE IF dir.symbols_[locate + 1].is_active THEN locate + 1
    ELSE NULL

get_locate(dir, symbol) ==
    IF symbol \in DOMAIN dir.symbol_to_locate_
    THEN [has_value |-> TRUE, value |-> dir.symbol_to_locate_[symbol]]
    ELSE nullopt

\* ------------------------------------------------------------------------
\* FeedHandler.  A handler takes the FeedHandler object and the decoded
\* message and returns the object with the events the subscriber received
\* during the call, in order.  The latency histograms of FeedMetrics are
\* not carried.
\* ------------------------------------------------------------------------
FeedMetrics_new ==
    [messages_processed |-> 0, orders_added |-> 0, orders_executed |-> 0,
     orders_cancelled |-> 0, orders_deleted |-> 0, orders_replaced |-> 0,
     trades |-> 0, bbo_updates |-> 0]

ParserStats_new ==
    [messages_parsed |-> 0, bytes_processed |-> 0, parse_errors |-> 0,
     message_type_counts |-> [t \in 0..255 |-> 0]]

\* the TemplateParser a FeedHandler owns: its handler_ is the FeedHandler
TemplateParser_new == [stats_ |-> ParserStats_new]

FeedHandler_new ==
    [parser_          |-> TemplateParser_new,
     book_manager_    |-> OrderBookManager_new,
     symbol_directory_ |-> SymbolDirectory_new,
     metrics_         |-> FeedMetrics_new,
     event_handler_   |-> FALSE,
     symbol_filter_   |-> {},
     use_filter_      |-> FALSE,
     collect_metrics_ |-> FALSE]

set_event_handler(fh, handler) == [fh EXCEPT !.event_handler_ = handler]

enable_metrics(fh, enable) ==
    [fh EXCEPT !.collect_metrics_ = enable,
               !.metrics_ = IF enable THEN FeedMetrics_new ELSE @]

\* FeedHandler::reset; the parser statistics are those of the parser
reset(fh) ==
    [fh EXCEPT !.book_manager_ = OrderBookManager_clear(@),
               !.parser_.stats_ = ParserStats_new,
               !.metrics_ = FeedMetrics_new]

parser_stats(fh) == fh.parser_.stats_

char_to_side(c) == c

\* the filter test with the membership inverted
filtered_out_Inverted(fh, locate) == fh.use_filter_ /\ locate \in fh.symbol_filter_

filtered_out(fh, locate) == fh.use_filter_ /\ locate \notin fh.symbol_filter_

\* the tail shared by the order handlers: compare the BBO snapshot with the
\* book's BBO and notify the subscriber when a price differs.  An event
\* carries, besides the fields of BBOEvent / TradeEvent, the books as the
\* subscriber finds them while its callback runs (seen).
bbo_event(fh, locate, old_bbo) ==
    LET new_bbo == fh.book_manager_.books_[locate].bbo_ IN
    IF /\ fh.event_handler_
       /\ (old_bbo.bid_price # new_bbo.bid_price \/ old_bbo.ask_price # new_bbo.ask_price)
    THEN [fh     |-> [fh EXCEPT !.metrics_.bbo_updates = @ + 1],
          events |-> <<[type |-> "bbo_update", stock_locate |-> locate,
                        old_bbo |-> old_bbo, new_bbo |-> new_bbo,
                        seen |-> fh.book_manager_]>>]
    ELSE [fh |-> fh, events |-> <<>>]

on_add_order(fh, msg) ==
    LET locate == msg.stock_locate IN
    IF filtered_out(fh, locate) THEN [fh |-> fh, events |-> <<>>]
    ELSE
      LET mgr     == get_book(fh.book_manager_, locate)
          old_bbo == IF fh.event_handler_ THEN mgr.books_[locate].bbo_ ELSE BBO_new
          r       == add_order(mgr.books_[locate], mgr.order_pool_, msg.order_ref,
                               char_to_side(msg.buy_sell_indicator), msg.price, msg.shares)
          fh1     == [fh EXCEPT !.book_manager_ =
                         [books_      |-> [mgr.books_ EXCEPT ![locate] = r.book],
                          order_pool_ |-> r.pool]]
          fh2     == IF fh.collect_metrics_
                     THEN [fh1 EXCEPT !.metrics_.orders_added = @ + 1,
                                      !.metrics_.messages_processed = @ + 1]
                     ELSE fh1
      IN bbo_event(fh2, locate, old_bbo)

on_add_order_mpid(fh, msg) ==
    LET locate == msg.stock_locate IN
    IF filtered_out(fh, locate) THEN [fh |-> fh, events |-> <<>>]
    ELSE
      LET mgr     == get_book(fh.book_manager_, locate)
          old_bbo == IF fh.event_handler_ THEN mgr.books_[locate].bbo_ ELSE BBO_new
          r       == add_order(mgr.books_[locate], mgr.order_pool_, msg.order_ref,
                               char_to_side(msg.buy_sell_indicator), msg.price, msg.shares)
          fh1     == [fh EXCEPT !.book_manager_ =
                         [books_      |-> [mgr.books_ EXCEPT ![locate] = r.book],
                          order_pool_ |-> r.pool]]
          fh2     == [fh1 EXCEPT !.metrics_.orders_added = @ + 1,
                                 !.metrics_.messages_processed = @ + 1]
      IN bbo_event(fh2, locate, old_bbo)

on_order_delete(fh, msg) ==
    LET locate == msg.stock_locate IN
    IF filtered_out(fh, locate) THEN [fh |-> fh, events |-> <<>>]
    ELSE
      LET mgr     == get_book(fh.book_manager_, locate)
          old_bbo == IF fh.event_handler_ THEN mgr.books_[locate].bbo_ ELSE BBO_new
          r       == delete_order(mgr.books_[locate], mgr.order_pool_, msg.order_ref)
          fh1     == [fh EXCEPT !.book_manager_ =
                         [books_      |-> [mgr.books_ EXCEPT ![locate] = r.book],
                          order_pool_ |-> r.pool]]
          fh2     == [fh1 EXCEPT !.metrics_.orders_deleted = @ + 1,
                                 !.metrics_.messages_processed = @ + 1]
      IN bbo_event(fh2, locate, old_bbo)

set_symbol_filter(fh, locates) ==
    [fh EXCEPT !.symbol_filter_ = locates, !.use_filter_ = (locates # {})]

clear_symbol_filter(fh) ==
    [fh EXCEPT !.symbol_filter_ = {}, !.use_filter_ = FALSE]

\* on_trade of the subscriber, called from on_order_executed and
\* on_order_executed_price with the resting order found by get_order
trade_event(fh, locate, price, quantity, order_id, side) ==
    IF fh.event_handler_
    THEN <<[type |-> "trade", stock_locate |-> locate, price |-> price,
            quantity |-> quantity, order_ref |-> order_id, side |-> side,
            seen |-> fh.book_manager_]>>
    ELSE <<>>

\* the body shared by on_order_executed and on_order_executed_price once
\* the trade price is chosen: use_exec_price is FALSE for 'E' (order->price)
\* and TRUE for 'C' (msg.execution_price)
\* executed that tells the subscriber of the trade once the book has been
\* updated
executed_TradeAfterMutation(fh, msg, use_exec_price) ==
    LET locate == msg.stock_locate IN
    IF filtered_out(fh, locate) THEN [fh |-> fh, events |-> <<>>]
    ELSE
      LET mgr      == get_book(fh.book_manager_, locate)
          old_bbo  == IF fh.event_handler_ THEN mgr.books_[locate].bbo_ ELSE BBO_new
          order_id == msg.order_ref
          order    == get_order(mgr.books_[locate], order_id)
          r        == IF order # NULL
                      THEN execute_order(mgr.books_[locate], mgr.order_pool_,
                                         order_id, msg.executed_shares)
                      ELSE [book |-> mgr.books_[locate], pool |-> mgr.order_pool_]
          fh1      == [fh EXCEPT !.book_manager_ =
                          [books_      |-> [mgr.books_ EXCEPT ![locate] = r.book],
                           order_pool_ |-> r.pool]]
          trade    == IF order # NULL
                      THEN trade_event(fh1, locate,
                                       IF use_exec_price THEN msg.execution_price
                                       ELSE mgr.order_pool_.store[order].price,
                                       msg.executed_shares, order_id,
                                       mgr.order_pool_.store[order].side)
                      ELSE <<>>
          fh2      == [fh1 EXCEPT !.metrics_.orders_executed = @ + 1,
                                  !.metrics_.trades = @ + 1,
                                  !.metrics_.messages_processed = @ + 1]
          b        == bbo_event(fh2, locate, old_bbo)
      IN [fh |-> b.fh, events |-> trade \o b.events]

executed(fh, msg, use_exec_price) ==
    LET locate == msg.stock_locate IN
    IF filtered_out(fh, locate) THEN [fh |-> fh, events |-> <<>>]
    ELSE
      LET mgr      == get_book(fh.book_manager_, locate)
          fh0      == [fh EXCEPT !.book_manager_ = mgr]
          old_bbo  == IF fh.event_handler_ THEN mgr.books_[locate].bbo_ ELSE BBO_new
          order_id == msg.order_ref
          order    == get_order(mgr.books_[locate], order_id)
          trade    == IF order # NULL
                      THEN trade_event(fh0, locate,
                                       IF use_exec_price THEN msg.execution_price
                                       ELSE mgr.order_pool_.store[order].price,
                                       msg.executed_shares, order_id,
                                       mgr.order_pool_.store[order].side)
                      ELSE <<>>
          r        == IF order # NULL
                      THEN execute_order(mgr.books_[locate], mgr.order_pool_,
                                         order_id, msg.executed_shares)
                      ELSE [book |-> mgr.books_[locate], pool |-> mgr.order_pool_]
          fh1      == [fh EXCEPT !.book_manager_ =
                          [books_      |-> [mgr.books_ EXCEPT ![locate] = r.book],
                           order_pool_ |-> r.pool]]
          fh2      == [fh1 EXCEPT !.metrics_.orders_executed = @ + 1,
                                  !.metrics_.trades = @ + 1,
                                  !.metrics_.messages_processed = @ + 1]
          b        == bbo_event(fh2, locate, old_bbo)
      IN [fh |-> b.fh, events |-> trade \o b.events]

on_order_executed(fh, msg) == executed(fh, msg, FALSE)

on_order_executed_price(fh, msg) == executed(fh, msg, TRUE)

\* on_order_cancel that counts a cancel only when it hit a resting order
on_order_cancel_CountsOnlyHits(fh, msg) ==
    LET locate == msg.stock_locate IN
    IF filtered_out(fh, locate) THEN [fh |-> fh, events |-> <<>>]
    ELSE
      LET mgr     == get_book(fh.book_manager_, locate)
          old_bbo == IF fh.event_handler_ THEN mgr.books_[locate].bbo_ ELSE BBO_new
          r       == cancel_order(mgr.books_[locate], mgr.order_pool_, msg.order_ref,
                                  msg.cancelled_shares)
          fh1     == [fh EXCEPT !.book_manager_ =
                         [books_      |-> [mgr.books_ EXCEPT ![locate] = r.book],
                          order_pool_ |-> r.pool]]
          fh2     == IF r.ret > 0
                     THEN [fh1 EXCEPT !.metrics_.orders_cancelled = @ + 1,
                                      !.metrics_.messages_processed = @ + 1]
                     ELSE fh1
      IN bbo_event(fh2, locate, old_bbo)

on_order_cancel(fh, msg) ==
    LET locate == msg.stock_locate IN
    IF filtered_out(fh, locate) THEN [fh |-> fh, events |-> <<>>]
    ELSE
      LET mgr     == get_book(fh.book_manager_, locate)
          old_bbo == IF fh.event_handler_ THEN mgr.books_[locate].bbo_ ELSE BBO_new
          r       == cancel_order(mgr.books_[locate], mgr.order_pool_, msg.order_ref,
                                  msg.cancelled_shares)
          fh1     == [fh EXCEPT !.book_manager_ =
                         [books_      |-> [mgr.books_ EXCEPT ![locate] = r.book],
                          order_pool_ |-> r.pool]]
          fh2     == [fh1 EXCEPT !.metrics_.orders_cancelled = @ + 1,
                                 !.metrics_.messages_processed = @ + 1]
      IN bbo_event(fh2, locate, old_bbo)

\* on_order_replace that compares the BBO after the delete and again after
\* the add
on_order_replace_EventPerStep(fh, msg) ==
    LET locate == msg.stock_locate IN
    IF filtered_out(fh, locate) THEN [fh |-> fh, events |-> <<>>]
    ELSE
      LET mgr     == get_book(fh.book_manager_, locate)
          old_bbo == IF fh.event_handler_ THEN mgr.books_[locate].bbo_ ELSE BBO_new
          live    == get_order(mgr.books_[locate], msg.original_order_ref) # NULL
          d       == delete_order(mgr.books_[locate], mgr.order_pool_,
                                  msg.original_order_ref)
          fhd     == [fh EXCEPT !.book_manager_ =
                         [books_      |-> [mgr.books_ EXCEPT ![locate] = d.book],
                          order_pool_ |-> d.pool]]
          e1      == bbo_event(fhd, locate, old_bbo)
          mid_bbo == IF fh.event_handler_ THEN d.book.bbo_ ELSE BBO_new
          r       == replace_order(mgr.books_[locate], mgr.order_pool_,
                                   msg.original_order_ref, msg.new_order_ref,
                                   msg.shares, msg.price)
          fh1     == [e1.fh EXCEPT !.book_manager_ =
                         [books_      |-> [mgr.books_ EXCEPT ![locate] = r.book],
                          order_pool_ |-> r.pool]]
          fh2     == [fh1 EXCEPT !.metrics_.orders_replaced = @ + 1,
                                 !.metrics_.messages_processed = @ + 1]
          e2      == bbo_event(fh2, locate, mid_bbo)
      IN IF live THEN [fh |-> e2.fh, events |-> e1.events \o e2.events]
         ELSE bbo_event(fh2, locate, old_bbo)

on_order_replace(fh, msg) ==
    LET locate == msg.stock_locate IN
    IF filtered_out(fh, locate) THEN [fh |-> fh, events |-> <<>>]
    ELSE
      LET mgr     == get_book(fh.book_manager_, locate)
          old_bbo == IF fh.event_handler_ THEN mgr.books_[locate].bbo_ ELSE BBO_new
          r       == replace_order(mgr.books_[locate], mgr.order_pool_,
                                   msg.original_order_ref, msg.new_order_ref,
                                   msg.shares, msg.price)
          fh1     == [fh EXCEPT !.book_manager_ =
                         [books_      |-> [mgr.books_ EXCEPT ![locate] = r.book],
                          order_pool_ |-> r.pool]]
          fh2     == [fh1 EXCEPT !.metrics_.orders_replaced = @ + 1,
                                 !.metrics_.messages_processed = @ + 1]
      IN bbo_event(fh2, locate, old_bbo)

on_trade(fh, msg) ==
    LET locate == msg.stock_locate IN
    IF filtered_out(fh, locate) THEN [fh |-> fh, events |-> <<>>]
    ELSE [fh     |-> [fh EXCEPT !.metrics_.trades = @ + 1,
                                !.metrics_.messages_processed = @ + 1],
          events |-> trade_event(fh, locate, msg.price, msg.shares, msg.order_ref,
                                 char_to_side(msg.buy_sell_indicator))]

on_cross_trade(fh, msg) ==
    LET locate == msg.stock_locate IN
    IF filtered_out(fh, locate) THEN [fh |-> fh, events |-> <<>>]
    ELSE [fh     |-> [fh EXCEPT !.metrics_.trades = @ + 1,
                                !.metrics_.messages_processed = @ + 1],
          events |-> trade_event(fh, locate, msg.cross_price, msg.shares, 0, "B")]

\* ------------------------------------------------------------------------
\* Wire format.  A buffer is a sequence of bytes (0..255); data[1] is the
\* byte the pointer points at.  Message type tags are ASCII codes.
\* ------------------------------------------------------------------------
ord ==
    ("S" :> 83) @@ ("R" :> 82) @@ ("H" :> 72) @@ ("Y" :> 89) @@ ("L" :> 76) @@
    ("V" :> 86) @@ ("W" :> 87) @@ ("K" :> 75) @@ ("J" :> 74) @@ ("h" :> 104) @@
    ("A" :> 65) @@ ("F" :> 70) @@ ("E" :> 69) @@ ("C" :> 67) @@ ("X" :> 88) @@
    ("D" :> 68) @@ ("U" :> 85) @@ ("P" :> 80) @@ ("Q" :> 81) @@ ("B" :> 66) @@
    ("I" :> 73) @@ ("N" :> 78) @@ ("Z" :> 90)

get_message_size(type) ==
    CASE type = ord["S"] -> 12
      [] type = ord["R"] -> 39
      [] type = ord["H"] -> 25
      [] type = ord["Y"] -> 20
      [] type = ord["L"] -> 26
      [] type = ord["V"] -> 35
      [] type = ord["W"] -> 12
      [] type = ord["K"] -> 28
      [] type = ord["J"] -> 35
      [] type = ord["h"] -> 21
      [] type = ord["A"] -> 36
      [] type = ord["F"] -> 40
      [] type = ord["E"] -> 31
      [] type = ord["C"] -> 36
      [] type = ord["X"] -> 23
      [] type = ord["D"] -> 19
      [] type = ord["U"] -> 35
      [] type = ord["P"] -> 44
      [] type = ord["Q"] -> 40
      [] type = ord["B"] -> 19
      [] type = ord["I"] -> 50
      [] type = ord["N"] -> 20
      [] OTHER -> 0

\* the value of the w bytes at data + off read as a big-endian number
RECURSIVE be_to_host(_, _, _)
be_to_host(data, off, w) ==
    IF w = 0 THEN 0
    ELSE be_to_host(data, off, w - 1) * 256 + data[off + w]

be16_to_host(data, off) == be_to_host(data, off, 2)

be32_to_host(data, off) == be_to_host(data, off, 4)

be64_to_host(data, off) == be_to_host(data, off, 8)

\* the w bytes that hold value in network byte order (value < 2^31)
set_be(value, w) ==
    [i \in 1..w |-> IF w - i < 4 THEN (value \div (256 ^ (w - i))) % 256 ELSE 0]

set_be16(value) == set_be(value, 2)

set_be32(value) == set_be(value, 4)

set_be64(value) == set_be(value, 8)

Zeros(n) == [i \in 1..n |-> 0]

\* tag, stock_locate, tracking_number and timestamp: the 11 bytes every
\* message starts with
MessageHeader(type, stock_locate) ==
    <<ord[type]>> \o set_be16(stock_locate) \o Zeros(2) \o Zeros(6)

\* ------------------------------------------------------------------------
\* ITCHParser.  handler_ is TRUE when a MessageHandler is attached.  An
\* operation returns the parser, the callbacks the handler received during
\* the call, in order, and the return value.  A typed callback is recorded
\* with the bytes of the message it was handed.
\* ------------------------------------------------------------------------
ITCHParser(handler) == [handler_ |-> handler, stats_ |-> ParserStats_new]

set_handler(p, handler) == [p EXCEPT !.handler_ = handler]

\* the MessageHandler member a type tag is dispatched to
callback_of(msg_type) ==
    CASE msg_type = ord["S"] -> "on_system_event"
      [] msg_type = ord["R"] -> "on_stock_directory"
      [] msg_type = ord["H"] -> "on_stock_trading_action"
      [] msg_type = ord["Y"] -> "on_reg_sho_restriction"
      [] msg_type = ord["L"] -> "on_market_participant_pos"
      [] msg_type = ord["V"] -> "on_mwcb_decline_level"
      [] msg_type = ord["W"] -> "on_mwcb_status"
      [] msg_type = ord["K"] -> "on_ipo_quoting_period"
      [] msg_type = ord["J"] -> "on_luld_auction_collar"
      [] msg_type = ord["h"] -> "on_operational_halt"
      [] msg_type = ord["A"] -> "on_add_order"
      [] msg_type = ord["F"] -> "on_add_order_mpid"
      [] msg_type = ord["E"] -> "on_order_executed"
      [] msg_type = ord["C"] -> "on_order_executed_price"
      [] msg_type = ord["X"] -> "on_order_cancel"
      [] msg_type = ord["D"] -> "on_order_delete"
      [] msg_type = ord["U"] -> "on_order_replace"
      [] msg_type = ord["P"] -> "on_trade"
      [] msg_type = ord["Q"] -> "on_cross_trade"
      [] msg_type = ord["B"] -> "on_broken_trade"
      [] msg_type = ord["I"] -> "on_noii"
      [] msg_type = ord["N"] -> "on_rpii"
      [] OTHER -> "on_parse_error"

dispatch_message(p, msg_type, data) ==
    IF ~ p.handler_ THEN <<>>
    ELSE IF callback_of(msg_type) = "on_parse_error"
    THEN <<[cb |-> "on_parse_error", data |-> <<>>,
            error |-> "Unhandled message type"]>>
    ELSE <<[cb |-> callback_of(msg_type),
            data |-> SubSeq(data, 1, get_message_size(msg_type)),
            error |-> ""]>>

\* parse_message that asks for more bytes when the type is unknown
parse_message_UnknownNeedsMore(p, data, max_len) ==
    IF max_len = 0 \/ max_len < get_message_size(data[1])
                  \/ get_message_size(data[1]) = 0
    THEN [parser |-> IF max_len > 0 /\ get_message_size(data[1]) = 0
                     THEN [p EXCEPT !.stats_.parse_errors = @ + 1] ELSE p,
          calls  |-> <<>>, ret |-> 0]
    ELSE [parser |-> [p EXCEPT !.stats_.messages_parsed = @ + 1,
                               !.stats_.bytes_processed = @ + get_message_size(data[1]),
                               !.stats_.message_type_counts[data[1]] = @ + 1],
          calls  |-> dispatch_message(p, data[1], data),
          ret    |-> get_message_size(data[1])]

\* parse_message that counts a short read as a parse error
parse_message_ShortIsError(p, data, max_len) ==
    IF max_len = 0
    THEN [parser |-> p, calls |-> <<>>, ret |-> 0]
    ELSE
      LET msg_type == data[1]
          msg_size == get_message_size(msg_type)
      IN IF msg_size = 0 \/ max_len < msg_size
         THEN [parser |-> [p EXCEPT !.stats_.parse_errors = @ + 1],
               calls  |-> IF p.handler_
                          THEN <<[cb |-> "on_parse_error",
                                  data |-> SubSeq(data, 1, max_len),
                                  error |-> "Unknown message type"]>>
                          ELSE <<>>,
               ret    |-> IF msg_size = 0 THEN 1 ELSE 0]
         ELSE [parser |-> [p EXCEPT !.stats_.messages_parsed = @ + 1,
                                    !.stats_.bytes_processed = @ + msg_size,
                                    !.stats_.message_type_counts[msg_type] = @ + 1],
               calls  |-> dispatch_message(p, msg_type, data),
               ret    |-> msg_size]

parse_message(p, data, max_len) ==
    IF max_len = 0
    THEN [parser |-> p, calls |-> <<>>, ret |-> 0]
    ELSE
      LET msg_type == data[1]
          msg_size == get_message_size(msg_type)
      IN IF msg_size = 0
         THEN [parser |-> [p EXCEPT !.stats_.parse_errors = @ + 1],
               calls  |-> IF p.handler_
                          THEN <<[cb |-> "on_parse_error",
                                  data |-> SubSeq(data, 1, max_len),
                                  error |-> "Unknown message type"]>>
                          ELSE <<>>,
               ret    |-> 1]
         ELSE IF max_len < msg_size
         THEN [parser |-> p, calls |-> <<>>, ret |-> 0]
         ELSE [parser |-> [p EXCEPT !.stats_.messages_parsed = @ + 1,
                                    !.stats_.bytes_processed = @ + msg_size,
                                    !.stats_.message_type_counts[msg_type] = @ + 1],
               calls  |-> dispatch_message(p, msg_type, data),
               ret    |-> msg_size]

\* the bytes from data + offset on
From(data, offset) == SubSeq(data, offset + 1, Len(data))

\* the loop of parse leaving after the first message
parse_loop_StopsAfterFirst(p, data, len, offset, calls) ==
    IF ~ (offset < len)
    THEN [parser |-> p, calls |-> calls, ret |-> offset]
    ELSE LET r == parse_message(p, From(data, offset), len - offset)
         IN [parser |-> r.parser, calls |-> calls \o r.calls, ret |-> offset + r.ret]

RECURSIVE parse_loop(_, _, _, _, _)
parse_loop(p, data, len, offset, calls) ==
    IF ~ (offset < len)
    THEN [parser |-> p, calls |-> calls, ret |-> offset]
    ELSE
      LET r == parse_message(p, From(data, offset), len - offset) IN
      IF r.ret = 0
      THEN [parser |-> r.parser, calls |-> calls \o r.calls, ret |-> offset]
      ELSE parse_loop(r.parser, data, len, offset + r.ret, calls \o r.calls)

parse(p, data, len) == parse_loop(p, data, len, 0, <<>>)

HEADER_SIZE == 20

RECURSIVE moldudp64_loop(_, _, _, _, _, _, _, _)

\* the loop of parse_moldudp64 counting a payload the buffer cuts off
moldudp64_loop_CountsCutPayload(p, data, len, msg_count, i, offset, messages_parsed, calls) ==
    IF ~ (i < msg_count /\ offset + 2 <= len)
    THEN [parser |-> p, calls |-> calls, ret |-> messages_parsed]
    ELSE
      LET msg_len == be16_to_host(data, offset)
          offset1 == offset + 2
      IN IF offset1 + msg_len > len
         THEN [parser |-> p, calls |-> calls, ret |-> messages_parsed + 1]
         ELSE
           LET r == parse_message(p, From(data, offset1), msg_len) IN
           moldudp64_loop(r.parser, data, len, msg_count, i + 1, offset1 + msg_len,
                          IF r.ret > 0 THEN messages_parsed + 1 ELSE messages_parsed,
                          calls \o r.calls)

moldudp64_loop(p, data, len, msg_count, i, offset, messages_parsed, calls) ==
    IF ~ (i < msg_count /\ offset + 2 <= len)
    THEN [parser |-> p, calls |-> calls, ret |-> messages_parsed]
    ELSE
      LET msg_len == be16_to_host(data, offset)
          offset1 == offset + 2
      IN IF offset1 + msg_len > len
         THEN [parser |-> p, calls |-> calls, ret |-> messages_parsed]
         ELSE
           LET r == parse_message(p, From(data, offset1), msg_len) IN
           moldudp64_loop(r.parser, data, len, msg_count, i + 1, offset1 + msg_len,
                          IF r.ret > 0 THEN messages_parsed + 1 ELSE messages_parsed,
                          calls \o r.calls)

parse_moldudp64(p, data, len) ==
    IF len < HEADER_SIZE
    THEN [parser |-> p, calls |-> <<>>, ret |-> 0]
    ELSE moldudp64_loop(p, data, len, be16_to_host(data, 18), 0, HEADER_SIZE, 0, <<>>)

\* ------------------------------------------------------------------------
\* Messages on the wire: the writers build the image of a message from its
\* fields, the readers are what a handler sees through the packed struct.
\* ------------------------------------------------------------------------
chr(byte) == CHOOSE c \in DOMAIN ord : ord[c] = byte

generate_add_order(msg) ==
    MessageHeader("A", msg.stock_locate) \o set_be64(msg.order_ref)
        \o <<ord[msg.buy_sell_indicator]>> \o set_be32(msg.shares)
        \o Zeros(8) \o set_be32(msg.price)

generate_add_order_mpid(msg) ==
    MessageHeader("F", msg.stock_locate) \o set_be64(msg.order_ref)
        \o <<ord[msg.buy_sell_indicator]>> \o set_be32(msg.shares)
        \o Zeros(8) \o set_be32(msg.price) \o Zeros(4)

generate_order_executed(msg) ==
    MessageHeader("E", msg.stock_locate) \o set_be64(msg.order_ref)
        \o set_be32(msg.executed_shares) \o Zeros(8)

generate_order_cancel(msg) ==
    MessageHeader("X", msg.stock_locate) \o set_be64(msg.order_ref)
        \o set_be32(msg.cancelled_shares)

generate_order_delete(msg) ==
    MessageHeader("D", msg.stock_locate) \o set_be64(msg.order_ref)

generate_order_replace(msg) ==
    MessageHeader("U", msg.stock_locate) \o set_be64(msg.original_order_ref)
        \o set_be64(msg.new_order_ref) \o set_be32(msg.shares)
        \o set_be32(msg.price)

AddOrderMessage(data) ==
    [stock_locate       |-> be16_to_host(data, 1),
     order_ref          |-> be64_to_host(data, 11),
     buy_sell_indicator |-> chr(data[20]),
     shares             |-> be32_to_host(data, 20),
     price              |-> be32_to_host(data, 32)]

OrderExecutedMessage(data) ==
    [stock_locate    |-> be16_to_host(data, 1),
     order_ref       |-> be64_to_host(data, 11),
     executed_shares |-> be32_to_host(data, 19)]

OrderExecutedPriceMessage(data) ==
    [stock_locate    |-> be16_to_host(data, 1),
     order_ref       |-> be64_to_host(data, 11),
     executed_shares |-> be32_to_host(data, 19),
     execution_price |-> be32_to_host(data, 32)]

OrderCancelMessage(data) ==
    [stock_locate     |-> be16_to_host(data, 1),
     order_ref        |-> be64_to_host(data, 11),
     cancelled_shares |-> be32_to_host(data, 19)]

OrderDeleteMessage(data) ==
    [stock_locate |-> be16_to_host(data, 1),
     order_ref    |-> be64_to_host(data, 11)]

OrderReplaceMessage(data) ==
    [stock_locate       |-> be16_to_host(data, 1),
     original_order_ref |-> be64_to_host(data, 11),
     new_order_ref      |-> be64_to_host(data, 19),
     shares             |-> be32_to_host(data, 27),
     price              |-> be32_to_host(data, 31)]

TradeMessage(data) ==
    [stock_locate       |-> be16_to_host(data, 1),
     order_ref          |-> be64_to_host(data, 11),
     buy_sell_indicator |-> chr(data[20]),
     shares             |-> be32_to_host(data, 20),
     price              |-> be32_to_host(data, 32)]

CrossTradeMessage(data) ==
    [stock_locate |-> be16_to_host(data, 1),
     shares       |-> be64_to_host(data, 11),
     cross_price  |-> be32_to_host(data, 27)]

\* ------------------------------------------------------------------------
\* TemplateParser<FeedHandler>: the parser inside a FeedHandler.  Its
\* operations return the FeedHandler, the events the subscriber received
\* during the call, in order, and the return value.
\* ------------------------------------------------------------------------
\* the handlers that only count the message
counted(fh) ==
    [fh |-> [fh EXCEPT !.metrics_.messages_processed = @ + 1], events |-> <<>>]

on_stock_directory(fh, data) ==
    LET locate == be16_to_host(data, 1) IN
    [fh     |-> [fh EXCEPT !.symbol_directory_ =
                               add_symbol(@, locate, SubSeq(data, 12, 19),
                                          data[20], data[21]),
                           !.metrics_.messages_processed = @ + 1],
     events |-> IF fh.event_handler_
                THEN <<[type |-> "symbol_added", stock_locate |-> locate,
                        symbol |-> SubSeq(data, 12, 19)]>>
                ELSE <<>>]

dispatch(fh, msg_type, data) ==
    CASE msg_type = ord["R"] -> on_stock_directory(fh, data)
      [] msg_type = ord["A"] -> on_add_order(fh, AddOrderMessage(data))
      [] msg_type = ord["F"] -> on_add_order_mpid(fh, AddOrderMessage(data))
      [] msg_type = ord["E"] -> on_order_executed(fh, OrderExecutedMessage(data))
      [] msg_type = ord["C"] ->
             on_order_executed_price(fh, OrderExecutedPriceMessage(data))
      [] msg_type = ord["X"] -> on_order_cancel(fh, OrderCancelMessage(data))
      [] msg_type = ord["D"] -> on_order_delete(fh, OrderDeleteMessage(data))
      [] msg_type = ord["U"] -> on_order_replace(fh, OrderReplaceMessage(data))
      [] msg_type = ord["P"] -> on_trade(fh, TradeMessage(data))
      [] msg_type = ord["Q"] -> on_cross_trade(fh, CrossTradeMessage(data))
      [] msg_type \in {ord["B"], ord["S"], ord["H"], ord["Y"], ord["L"], ord["V"],
                       ord["W"], ord["K"], ord["J"], ord["h"], ord["I"], ord["N"]} ->
             counted(fh)
      [] OTHER -> [fh |-> fh, events |-> <<>>]

TemplateParser_parse_message(fh, data, max_len) ==
    IF max_len = 0
    THEN [fh |-> fh, events |-> <<>>, ret |-> 0]
    ELSE
      LET msg_type == data[1]
          msg_size == get_message_size(msg_type)
      IN IF msg_size = 0 \/ max_len < msg_size
         THEN [fh |-> fh, events |-> <<>>, ret |-> 0]
         ELSE LET consumed(d) == [fh |-> d.fh, events |-> d.events, ret |-> msg_size]
              IN consumed(dispatch(fh, msg_type, data))

RECURSIVE TemplateParser_parse_loop(_, _, _, _, _)
TemplateParser_parse_loop(fh, data, len, offset, evs) ==
    IF ~ (offset < len)
    THEN [fh |-> fh, events |-> evs, ret |-> offset]
    ELSE
      LET step(r) ==
            IF r.ret = 0
            THEN [fh |-> r.fh, events |-> evs, ret |-> offset]
            ELSE TemplateParser_parse_loop(r.fh, data, len, offset + r.ret,
                                           evs \o r.events)
      IN step(TemplateParser_parse_message(fh, From(data, offset), len - offset))

TemplateParser_parse(fh, data, len) ==
    TemplateParser_parse_loop(fh, data, len, 0, <<>>)

process(fh, data, len) == TemplateParser_parse(fh, data, len)

RECURSIVE TemplateParser_moldudp64_loop(_, _, _, _, _, _, _, _)
TemplateParser_moldudp64_loop(fh, data, len, msg_count, i, offset, messages_parsed, evs) ==
    IF ~ (i < msg_count /\ offset + 2 <= len)
    THEN [fh |-> fh, events |-> evs, ret |-> messages_parsed]
    ELSE
      LET msg_len == be16_to_host(data, offset)
          offset1 == offset + 2
      IN IF offset1 + msg_len > len
         THEN [fh |-> fh, events |-> evs, ret |-> messages_parsed]
         ELSE
           LET step(r) ==
                 TemplateParser_moldudp64_loop(
                     r.fh, data, len, msg_count, i + 1, offset1 + msg_len,
                     IF r.ret > 0 THEN messages_parsed + 1 ELSE messages_parsed,
                     evs \o r.events)
           IN step(TemplateParser_parse_message(fh, From(data, offset1), msg_len))

TemplateParser_parse_moldudp64(fh, data, len) ==
    IF len < HEADER_SIZE
    THEN [fh |-> fh, events |-> <<>>, ret |-> 0]
    ELSE TemplateParser_moldudp64_loop(fh, data, len, be16_to_host(data, 18), 0,
                                       HEADER_SIZE, 0, <<>>)

\* ------------------------------------------------------------------------
\* State
\* ------------------------------------------------------------------------
VARIABLES
    book,   \* one OrderBook driven directly through its public operations
    pool,   \* the ObjectPool<Order> passed to every book operation
    last,   \* the last call made: operation and return value
    fh,     \* a FeedHandler
    events, \* what the subscriber received during the last message
    fed,    \* number of messages fed to fh, or of calls made on parser
    parser, \* an ITCHParser
    calls,  \* what the parser's MessageHandler received during the last call
    acquired, \* the slots a direct caller of pool acquired and has not released
    table,  \* one OrderMap driven directly through put and remove
    ref     \* the reference map: the record last put for each id in table

mapVars == <<table, ref>>

\* the reference map that holds nothing
NoEntries == [id \in {} |-> NULL]

vars == <<book, pool, last, fh, events, fed, parser, calls, acquired, table, ref>>

parserVars == <<parser, calls>>

bookVars == <<book, pool>>

feedVars == <<fh, events, fed>>

NoCall == [op |-> "none", ret |-> 0]

\* OrderBook book(1); ObjectPool<Order> pool;
InitBook ==
    /\ book = OrderBook(1)
    /\ pool = ObjectPool_new
    /\ acquired = {}
    /\ table = OrderMap_new(InitialCapacity)
    /\ ref = NoEntries
    /\ last = NoCall
    /\ fh = FeedHandler_new
    /\ events = <<>>
    /\ fed = 0
    /\ parser = ITCHParser(FALSE)
    /\ calls = <<>>

BookAddOrder ==
    \E id \in Ids, side \in Sides, price \in Prices, qty \in Quantities :
        LET r == add_order(book, pool, id, side, price, qty) IN
        /\ book' = r.book
        /\ pool' = r.pool
        /\ last' = [op |-> "add_order", ret |-> r.ret]
        /\ UNCHANGED <<feedVars, parserVars, acquired, mapVars>>

BookExecuteOrder ==
    \E id \in Ids, qty \in Quantities :
        LET r == execute_order(book, pool, id, qty) IN
        /\ book' = r.book
        /\ pool' = r.pool
        /\ last' = [op |-> "execute_order", ret |-> r.ret]
        /\ UNCHANGED <<feedVars, parserVars, acquired, mapVars>>

BookCancelOrder ==
    \E id \in Ids, qty \in Quantities :
        LET r == cancel_order(book, pool, id, qty) IN
        /\ book' = r.book
        /\ pool' = r.pool
        /\ last' = [op |-> "cancel_order", ret |-> r.ret]
        /\ UNCHANGED <<feedVars, parserVars, acquired, mapVars>>

BookDeleteOrder ==
    \E id \in Ids :
        LET r == delete_order(book, pool, id) IN
        /\ book' = r.book
        /\ pool' = r.pool
        /\ last' = [op |-> "delete_order", ret |-> r.ret]
        /\ UNCHANGED <<feedVars, parserVars, acquired, mapVars>>

BookReplaceOrder ==
    \E old_id \in Ids, new_id \in Ids, qty \in Quantities, price \in Prices :
        LET r == replace_order(book, pool, old_id, new_id, qty, price) IN
        /\ book' = r.book
        /\ pool' = r.pool
        /\ last' = [op |-> "replace_order", ret |-> r.ret]
        /\ UNCHANGED <<feedVars, parserVars, acquired, mapVars>>

NextBook ==
    \/ BookAddOrder
    \/ BookExecuteOrder
    \/ BookCancelOrder
    \/ BookDeleteOrder
    \/ BookReplaceOrder

SpecBook == InitBook /\ [][NextBook]_vars

\* ------------------------------------------------------------------------
\* A FeedHandler fed decoded messages
\* ------------------------------------------------------------------------
AddOrderMessages ==
    [stock_locate : Locates, order_ref : Ids, buy_sell_indicator : Sides,
     shares : Shares, price : Prices]

OrderDeleteMessages == [stock_locate : Locates, order_ref : Ids]

OrderExecutedMessages ==
    [stock_locate : Locates, order_ref : Ids, executed_shares : Shares]

OrderExecutedPriceMessages ==
    [stock_locate : Locates, order_ref : Ids, executed_shares : Shares,
     execution_price : Prices]

OrderCancelMessages ==
    [stock_locate : Locates, order_ref : Ids, cancelled_shares : Shares]

OrderReplaceMessages ==
    [stock_locate : Locates, original_order_ref : Ids, new_order_ref : Ids,
     shares : Shares, price : Prices]

TradeMessages ==
    [stock_locate : Locates, order_ref : Ids, buy_sell_indicator : Sides,
     shares : Shares, price : Prices]

CrossTradeMessages == [stock_locate : Locates, shares : Shares, cross_price : Prices]

\* the locate sets a filter is built from: the locates that have a book and
\* one that no message of the feed carries
FilterSets == SUBSET (1..MAX_SYMBOLS)

InitFeed ==
    /\ fh = FeedHandler_new
    /\ events = <<>>
    /\ fed = 0
    /\ parser = ITCHParser(FALSE)
    /\ calls = <<>>
    /\ last = NoCall
    /\ book = OrderBook(1)
    /\ pool = ObjectPool_new
    /\ acquired = {}
    /\ table = OrderMap_new(InitialCapacity)
    /\ ref = NoEntries

Deliver(r, op) ==
    /\ fed < MaxMessages
    /\ fh' = r.fh
    /\ events' = r.events
    /\ fed' = fed + 1
    /\ last' = [op |-> op, ret |-> 0]
    /\ UNCHANGED <<bookVars, parserVars, acquired, mapVars>>

FeedAddOrder == \E msg \in AddOrderMessages : Deliver(on_add_order(fh, msg), "A")

FeedAddOrderMPID == \E msg \in AddOrderMessages : Deliver(on_add_order_mpid(fh, msg), "F")

FeedOrderDelete == \E msg \in OrderDeleteMessages : Deliver(on_order_delete(fh, msg), "D")

FeedOrderExecuted ==
    \E msg \in OrderExecutedMessages : Deliver(on_order_executed(fh, msg), "E")

FeedOrderExecutedPrice ==
    \E msg \in OrderExecutedPriceMessages : Deliver(on_order_executed_price(fh, msg), "C")

FeedOrderCancel ==
    \E msg \in OrderCancelMessages : Deliver(on_order_cancel(fh, msg), "X")

FeedOrderReplace ==
    \E msg \in OrderReplaceMessages : Deliver(on_order_replace(fh, msg), "U")

FeedTrade == \E msg \in TradeMessages : Deliver(on_trade(fh, msg), "P")

FeedCrossTrade == \E msg \in CrossTradeMessages : Deliver(on_cross_trade(fh, msg), "Q")

\* The subscriber, the metrics switch and the filter are set up before the
\* first message is fed.
FeedSetEventHandler ==
    \E handler \in BOOLEAN :
        /\ fed = 0
        /\ handler # fh.event_handler_
        /\ fh' = set_event_handler(fh, handler)
        /\ UNCHANGED <<events, fed, last, book, pool, parserVars, acquired, mapVars>>

FeedEnableMetrics ==
    \E enable \in BOOLEAN :
        /\ fed = 0
        /\ enable # fh.collect_metrics_
        /\ fh' = enable_metrics(fh, enable)
        /\ UNCHANGED <<events, fed, last, book, pool, parserVars, acquired, mapVars>>

FeedSetSymbolFilter ==
    \E locates \in FilterSets :
        /\ fed = 0
        /\ locates # fh.symbol_filter_
        /\ fh' = set_symbol_filter(fh, locates)
        /\ UNCHANGED <<events, fed, last, book, pool, parserVars, acquired, mapVars>>

FeedClearSymbolFilter ==
    /\ fed = 0
    /\ fh.use_filter_
    /\ fh' = clear_symbol_filter(fh)
    /\ UNCHANGED <<events, fed, last, book, pool, parserVars, acquired, mapVars>>

NextFeed ==
    \/ FeedAddOrder
    \/ FeedAddOrderMPID
    \/ FeedOrderDelete
    \/ FeedSetEventHandler
    \/ FeedEnableMetrics

SpecFeed == InitFeed /\ [][NextFeed]_vars

\* the same FeedHandler fed the order messages that act on resting orders
NextOrders ==
    \/ FeedAddOrderMPID
    \/ FeedOrderExecuted
    \/ FeedOrderExecutedPrice
    \/ FeedOrderCancel
    \/ FeedOrderDelete
    \/ FeedOrderReplace
    \/ FeedTrade
    \/ FeedCrossTrade
    \/ FeedSetEventHandler
    \/ FeedSetSymbolFilter
    \/ FeedClearSymbolFilter

SpecOrders == InitFeed /\ [][NextOrders]_vars

\* ------------------------------------------------------------------------
\* An ITCHParser given buffers
\* ------------------------------------------------------------------------
MaxCalls == 2

MaxStream == 2

\* complete messages as they stand in a buffer
Images ==
    {generate_add_order([stock_locate |-> 1, order_ref |-> 3,
                         buy_sell_indicator |-> "B", shares |-> 1, price |-> 1])}
    \cup {generate_order_delete([stock_locate |-> 1, order_ref |-> id]) : id \in Ids}

\* a byte that is no type tag
Unknown == <<ord["Z"]>>

\* messages cut short: every proper non-empty prefix of a complete message
Truncated == UNION {{SubSeq(img, 1, n) : n \in 1..(Len(img) - 1)} : img \in Images}

RECURSIVE Concat(_)
Concat(seqs) == IF seqs = <<>> THEN <<>> ELSE Head(seqs) \o Concat(Tail(seqs))

\* up to MaxStream complete messages
ImageSeqs == UNION {[1..n -> Images] : n \in 0..MaxStream}

\* one MoldUDP64 packet: header with message_count, then the blocks, each a
\* declared length followed by its payload
MoldHeader(message_count) == Zeros(10) \o Zeros(8) \o set_be16(message_count)

MoldBlock(declared, payload) == set_be16(declared) \o payload

DeleteImage == generate_order_delete([stock_locate |-> 1, order_ref |-> 3])

ParseMessageInputs ==
    {Unknown, DeleteImage, SubSeq(DeleteImage, 1, 16), Unknown \o DeleteImage}

ParseInputs ==
    {Concat(<<DeleteImage, DeleteImage>>),
     DeleteImage \o SubSeq(DeleteImage, 1, 1),
     Unknown \o DeleteImage}

PacketInputs ==
    {MoldHeader(2) \o MoldBlock(19, DeleteImage) \o MoldBlock(19, DeleteImage),
     MoldHeader(2) \o MoldBlock(19, DeleteImage) \o MoldBlock(19, SubSeq(DeleteImage, 1, 5)),
     MoldHeader(1) \o MoldBlock(1, Unknown),
     SubSeq(MoldHeader(1), 1, 19)}

InitParser ==
    /\ parser = ITCHParser(FALSE)
    /\ calls = <<>>
    /\ last = NoCall
    /\ fed = 0
    /\ fh = FeedHandler_new
    /\ events = <<>>
    /\ book = OrderBook(1)
    /\ pool = ObjectPool_new
    /\ acquired = {}
    /\ table = OrderMap_new(InitialCapacity)
    /\ ref = NoEntries

Called(r, op) ==
    /\ fed < MaxCalls
    /\ parser' = r.parser
    /\ calls' = r.calls
    /\ last' = [op |-> op, ret |-> r.ret]
    /\ fed' = fed + 1
    /\ UNCHANGED <<fh, events, book, pool, acquired, mapVars>>

ParserParseMessage ==
    \E data \in ParseMessageInputs :
        Called(parse_message(parser, data, Len(data)), "parse_message")

ParserParse ==
    \E data \in ParseInputs : Called(parse(parser, data, Len(data)), "parse")

ParserParseMoldUDP64 ==
    \E data \in PacketInputs :
        Called(parse_moldudp64(parser, data, Len(data)), "parse_moldudp64")

\* the MessageHandler is attached before the first buffer is parsed
ParserSetHandler ==
    /\ fed = 0
    /\ ~ parser.handler_
    /\ parser' = set_handler(parser, TRUE)
    /\ UNCHANGED <<calls, last, fed, fh, events, book, pool, acquired, mapVars>>

NextParser ==
    \/ ParserParseMessage
    \/ ParserParse
    \/ ParserParseMoldUDP64
    \/ ParserSetHandler

SpecParser == InitParser /\ [][NextParser]_vars

\* ------------------------------------------------------------------------
\* A FeedHandler given raw buffers through process
\* ------------------------------------------------------------------------
ProcessImages ==
    {generate_add_order_mpid(m) :
        m \in [stock_locate : Locates, order_ref : Ids, buy_sell_indicator : {"B"},
               shares : {1}, price : Prices]}
    \cup {generate_add_order(m) :
             m \in [stock_locate : Locates, order_ref : Ids,
                    buy_sell_indicator : {"S"}, shares : {2}, price : {MaxPrice}]}
    \cup {generate_order_delete(m) : m \in OrderDeleteMessages}
    \cup {generate_order_executed(m) :
             m \in [stock_locate : Locates, order_ref : Ids, executed_shares : {1}]}

ProcessImageSeqs == UNION {[1..n -> ProcessImages] : n \in 1..MaxStream}

ProcessInputs ==
    {Concat(msgs) : msgs \in ProcessImageSeqs}
    \cup {Unknown \o img : img \in ProcessImages}

FeedProcess ==
    \E data \in ProcessInputs :
      \E r \in {process(fh, data, Len(data))} :
        /\ fed < MaxCalls
        /\ fh' = r.fh
        /\ events' = r.events
        /\ fed' = fed + 1
        /\ last' = [op |-> "process", ret |-> r.ret]
        /\ UNCHANGED <<bookVars, parserVars, acquired, mapVars>>

NextProcess ==
    \/ FeedProcess
    \/ FeedSetEventHandler

SpecProcess == InitFeed /\ [][NextProcess]_vars

\* ------------------------------------------------------------------------
\* Observers used by the properties
\* ------------------------------------------------------------------------
Range(f) == {f[x] : x \in DOMAIN f}

IsOrder(rec) == rec # Indeterminate

\* slots handed out by the pool and not released: the live orders
HeldSlots(p) == (1..ObjectPool_capacity(p)) \ Range(p.free_list_)

\* the list of a level, head to tail, following next (at most fuel links)
RECURSIVE ListFrom(_, _, _)
ListFrom(store, o, fuel) ==
    IF o = NULL \/ fuel = 0 THEN <<>>
    ELSE IF ~ IsOrder(store[o]) THEN <<o>>
    ELSE <<o>> \o ListFrom(store, store[o].next, fuel - 1)

LevelList(level, p) == ListFrom(p.store, level.head_, Len(p.store) + 1)

SideMap(b, side) == IF is_buy(side) THEN b.bids_ ELSE b.asks_

AllKeys(b) ==
    {<<"B", p>> : p \in DOMAIN b.bids_} \cup {<<"S", p>> : p \in DOMAIN b.asks_}

LevelAt(b, k) == SideMap(b, k[1])[k[2]]

Occurrences(seq, x) == Cardinality({i \in DOMAIN seq : seq[i] = x})

RECURSIVE SumQty(_, _)
SumQty(store, seq) ==
    IF seq = <<>> THEN 0
    ELSE (IF IsOrder(store[Head(seq)]) THEN store[Head(seq)].quantity ELSE 0)
         + SumQty(store, Tail(seq))

RECURSIVE SumCounts(_, _)
SumCounts(b, keys) ==
    IF keys = {} THEN 0
    ELSE LET k == CHOOSE x \in keys : TRUE IN
         LevelAt(b, k).order_count_ + SumCounts(b, keys \ {k})

\* the slot of the live order with this id, NULL when there is none
SlotOf(p, id) ==
    LET ss == {s \in HeldSlots(p) : IsOrder(p.store[s]) /\ p.store[s].order_id = id} IN
    IF ss = {} THEN NULL ELSE CHOOSE s \in ss : TRUE

IsLive(p, id) == SlotOf(p, id) # NULL

\* ------------------------------------------------------------------------
\* Book invariants
\* ------------------------------------------------------------------------

\* C1: every live order is found by get_order under its id and is linked
\* in exactly one price level, once, the level on its side at its price.
C1_LiveOrderIndexedAndLinked ==
    \A s \in HeldSlots(pool) :
        LET o == pool.store[s] IN
        /\ IsOrder(o)
        /\ get_order(book, o.order_id) = s
        /\ {k \in AllKeys(book) : Occurrences(LevelList(LevelAt(book, k), pool), s) > 0}
              = {<<o.side, o.price>>}
        /\ <<o.side, o.price>> \in AllKeys(book)
        /\ Occurrences(LevelList(LevelAt(book, <<o.side, o.price>>), pool), s) = 1

\* a delete has removed one order while another stays live, reached by
\* probing past the removed order's home entry
C1_Witness ==
    /\ last.op = "delete_order"
    /\ last.ret = TRUE
    /\ IsLive(pool, 7)
    /\ book.orders_.capacity_ = 4
    /\ book.orders_.entries_[3].id = 7

\* C2: each level's cached total_quantity equals the sum of the quantities
\* of the orders in its list, and its cached order_count equals the length
\* of its list.
C2_CachedTotalsEqualList ==
    \A k \in AllKeys(book) :
        LET level == LevelAt(book, k)
            list  == LevelList(level, pool)
        IN /\ level.total_quantity_ = SumQty(pool.store, list)
           /\ level.order_count_ = Len(list)

\* the cached BBO of book b against b's levels
BBOReflectsLevels(b) ==
    /\ IF DOMAIN b.bids_ = {}
       THEN b.bbo_.bid_price = 0 /\ b.bbo_.bid_quantity = 0
       ELSE /\ b.bbo_.bid_price \in DOMAIN b.bids_
            /\ \A q \in DOMAIN b.bids_ : q <= b.bbo_.bid_price
            /\ b.bbo_.bid_quantity = b.bids_[b.bbo_.bid_price].total_quantity_
    /\ IF DOMAIN b.asks_ = {}
       THEN b.bbo_.ask_price = PriceMax /\ b.bbo_.ask_quantity = 0
       ELSE /\ b.bbo_.ask_price \in DOMAIN b.asks_
            /\ \A q \in DOMAIN b.asks_ : q >= b.bbo_.ask_price
            /\ b.bbo_.ask_quantity = b.asks_[b.bbo_.ask_price].total_quantity_

\* C3: bbo.bid_price is the highest bid level price (0 with quantity 0 when
\* there is none), bbo.ask_price the lowest ask level price (the maximum
\* Price with quantity 0 when there is none), and the BBO quantities are
\* the total_quantity of the best levels.
C3_BBOIsBestLevel == BBOReflectsLevels(book)

\* the last call removed an order; one bid level is left and no ask level
C3_Witness ==
    /\ \/ last.op \in {"execute_order", "cancel_order"} /\ last.ret > 0
       \/ last.op = "delete_order" /\ last.ret = TRUE
    /\ DOMAIN book.bids_ # {}
    /\ book.bbo_.bid_price = 1
    /\ book.bbo_.ask_price = PriceMax

\* C4: order_count() is the sum of order_count over all levels.
C4_OrderCountIsSumOfLevels ==
    book.order_count_ = SumCounts(book, AllKeys(book))

C4_Witness ==
    /\ last.op = "execute_order"
    /\ last.ret > 0
    /\ book.order_count_ = 1
    /\ Cardinality(AllKeys(book)) = 1

\* C5: no stored level is empty, and a level is stored exactly when a live
\* order rests at its side and price.
C5_NoEmptyLevel ==
    /\ \A k \in AllKeys(book) :
          /\ LevelAt(book, k).order_count_ > 0
          /\ LevelAt(book, k).head_ # NULL
          /\ LevelList(LevelAt(book, k), pool) # <<>>
    /\ \A side \in Sides, price \in Prices :
          (<<side, price>> \in AllKeys(book))
            <=> (\E s \in HeldSlots(pool) :
                    /\ IsOrder(pool.store[s])
                    /\ pool.store[s].side = side
                    /\ pool.store[s].price = price)

\* an order has just left the book; one level with one order still stands
C5_Witness ==
    /\ \/ last.op \in {"execute_order", "cancel_order"} /\ last.ret > 0
       \/ last.op = "delete_order" /\ last.ret = TRUE
    /\ Cardinality(AllKeys(book)) = 1
    /\ book.order_count_ = 1

\* ------------------------------------------------------------------------
\* Contracts of the book operations.  Each is stated as: in every reachable
\* state, for every argument of the operation, the call made from that
\* state has the stated result (the actions of SpecBook make exactly these
\* calls).
\* ------------------------------------------------------------------------

\* C6: add_order with an id that is live returns null and leaves the book
\* and the pool (free list and storage) as they were.
C6_DuplicateAddRejected ==
    \A id \in Ids, side \in Sides, price \in Prices, qty \in Quantities :
        IsLive(pool, id) =>
            add_order(book, pool, id, side, price, qty)
                = [book |-> book, pool |-> pool, ret |-> NULL]

\* an add_order call has just been rejected
C6_Witness ==
    /\ last.op = "add_order"
    /\ last.ret = NULL
    /\ book.order_count_ > 0

\* total_quantity of the level at key k of book b, 0 when b has no such level
TotalAt(b, k) == IF k \in AllKeys(b) THEN LevelAt(b, k).total_quantity_ ELSE 0

InSomeLevel(b, p, s) ==
    \E k \in AllKeys(b) : Occurrences(LevelList(LevelAt(b, k), p), s) > 0

\* the result r of execute_order / cancel_order (id, qty) called on (b, p)
ReduceContract(b, p, id, qty, r) ==
    LET s == SlotOf(p, id) IN
    IF s = NULL
    THEN r.ret = 0
    ELSE LET o    == p.store[s]
             exec == Min(qty, o.quantity)
             k    == <<o.side, o.price>>
         IN /\ r.ret = exec
            /\ TotalAt(r.book, k) = (TotalAt(b, k) - exec) % QtyMod
            /\ IF o.quantity - exec = 0
               THEN /\ get_order(r.book, id) = NULL
                    /\ ~ InSomeLevel(r.book, r.pool, s)
                    /\ r.book.order_count_ = b.order_count_ - 1
               ELSE /\ get_order(r.book, id) = s
                    /\ r.pool.store[s].quantity = o.quantity - exec
                    /\ Occurrences(LevelList(LevelAt(r.book, k), r.pool), s) = 1
                    /\ r.book.order_count_ = b.order_count_

\* C8: execute_order and cancel_order give the same result; for a live
\* order they return exec = min(qty, quantity), take exec off the order and
\* off its level's total (Quantity arithmetic), and at quantity 0 remove
\* the order from level, index and order_count; for other ids they return 0.
C8_ExecuteAndCancelAgree ==
    \A id \in Ids, qty \in Quantities :
        LET e == execute_order(book, pool, id, qty)
            c == cancel_order(book, pool, id, qty)
        IN /\ ReduceContract(book, pool, id, qty, e)
           /\ ReduceContract(book, pool, id, qty, c)
           /\ c = e

\* a cancel has just taken part of an order and left the rest resting
C8_Witness ==
    /\ last.op = "cancel_order"
    /\ last.ret > 0
    /\ \E s \in HeldSlots(pool) :
          pool.store[s].quantity > 0 /\ pool.store[s].quantity + last.ret < QtyMod

RemoveAll(seq, x) == SelectSeq(seq, LAMBDA y : y # x)

\* C9: delete_order on a live order removes it whatever its quantity and
\* returns true: get_order is null, order_count is one less, the level
\* loses the order's quantity and one order (or is erased with its last
\* order), the slot is back in the pool, the other orders stay; for an id
\* that is not live it returns false.
C9_DeleteRemovesInFull ==
    \A id \in Ids :
        LET r == delete_order(book, pool, id)
            s == SlotOf(pool, id)
        IN IF s = NULL
           THEN r.ret = FALSE
           ELSE LET o    == pool.store[s]
                    k    == <<o.side, o.price>>
                    list == LevelList(LevelAt(book, k), pool)
                IN /\ r.ret = TRUE
                   /\ get_order(r.book, id) = NULL
                   /\ r.book.order_count_ = book.order_count_ - 1
                   /\ r.pool.free_list_ = Append(pool.free_list_, s)
                   /\ HeldSlots(r.pool) = HeldSlots(pool) \ {s}
                   /\ IF Len(list) = 1
                      THEN AllKeys(r.book) = AllKeys(book) \ {k}
                      ELSE /\ AllKeys(r.book) = AllKeys(book)
                           /\ LevelAt(r.book, k).total_quantity_
                                = (LevelAt(book, k).total_quantity_ - o.quantity) % QtyMod
                           /\ LevelAt(r.book, k).order_count_
                                = LevelAt(book, k).order_count_ - 1
                           /\ LevelList(LevelAt(r.book, k), r.pool) = RemoveAll(list, s)
                   /\ \A t \in HeldSlots(pool) \ {s} :
                         /\ get_order(r.book, pool.store[t].order_id) = t
                         /\ r.pool.store[t].quantity = pool.store[t].quantity
                         /\ InSomeLevel(r.book, r.pool, t)
                   /\ \A k2 \in AllKeys(book) \ {k} :
                         k2 \in AllKeys(r.book) /\ LevelAt(r.book, k2) = LevelAt(book, k2)

\* a delete has just succeeded and another order still rests in the book
C9_Witness ==
    /\ last.op = "delete_order"
    /\ last.ret = TRUE
    /\ book.order_count_ = 1

LiveInBook(f, locate, id) ==
    get_order(f.book_manager_.books_[locate], id) # NULL

\* the result r of an add handler called on f is a no-op: nothing inserted,
\* orders_added not incremented, no event
AddIsNoOp(f, r) ==
    /\ r.fh.book_manager_ = f.book_manager_
    /\ r.fh.metrics_.orders_added = f.metrics_.orders_added
    /\ r.events = <<>>

\* C7: an 'A' or 'F' message whose order_ref is already live in its
\* locate's book is a no-op: no order is inserted, orders_added is not
\* incremented and no BBO-change event is emitted.
C7_DuplicateAddIsNoOp ==
    \A msg \in AddOrderMessages :
        LiveInBook(fh, msg.stock_locate, msg.order_ref) =>
            /\ AddIsNoOp(fh, on_add_order(fh, msg))
            /\ AddIsNoOp(fh, on_add_order_mpid(fh, msg))

\* ------------------------------------------------------------------------
\* Feed handler: messages that name an order the book does not hold
\* ------------------------------------------------------------------------
BookAt(f, locate) == f.book_manager_.books_[locate]

\* levels, index, BBO and order count of the locate's book, and the pool,
\* are in r.fh what they were in f
BookUntouched(f, r, locate) ==
    /\ BookAt(r.fh, locate).bids_ = BookAt(f, locate).bids_
    /\ BookAt(r.fh, locate).asks_ = BookAt(f, locate).asks_
    /\ BookAt(r.fh, locate).orders_ = BookAt(f, locate).orders_
    /\ BookAt(r.fh, locate).bbo_ = BookAt(f, locate).bbo_
    /\ BookAt(r.fh, locate).order_count_ = BookAt(f, locate).order_count_
    /\ r.fh.book_manager_.order_pool_ = f.book_manager_.order_pool_

\* the handler result r on f touched no book, emitted nothing and
\* incremented the named counter by one
MissIsCounted(f, r, locate, counter) ==
    /\ BookUntouched(f, r, locate)
    /\ r.events = <<>>
    /\ r.fh.metrics_[counter] = f.metrics_[counter] + 1

\* C11: an unfiltered 'E', 'C', 'X', 'D' or 'U' message whose (original)
\* order_ref is not live in its locate's book leaves the book's levels,
\* index, BBO and order_count unchanged, emits no trade event and no
\* BBO-change event, and still increments the message's counter
\* (orders_executed / orders_cancelled / orders_deleted / orders_replaced).
C11_UnknownOrderIsCountedNoOp ==
    /\ \A msg \in OrderExecutedMessages :
          (~ filtered_out(fh, msg.stock_locate)
             /\ ~ LiveInBook(fh, msg.stock_locate, msg.order_ref)) =>
            MissIsCounted(fh, on_order_executed(fh, msg), msg.stock_locate,
                          "orders_executed")
    /\ \A msg \in OrderExecutedPriceMessages :
          (~ filtered_out(fh, msg.stock_locate)
             /\ ~ LiveInBook(fh, msg.stock_locate, msg.order_ref)) =>
            MissIsCounted(fh, on_order_executed_price(fh, msg), msg.stock_locate,
                          "orders_executed")
    /\ \A msg \in OrderCancelMessages :
          (~ filtered_out(fh, msg.stock_locate)
             /\ ~ LiveInBook(fh, msg.stock_locate, msg.order_ref)) =>
            MissIsCounted(fh, on_order_cancel(fh, msg), msg.stock_locate,
                          "orders_cancelled")
    /\ \A msg \in OrderDeleteMessages :
          (~ filtered_out(fh, msg.stock_locate)
             /\ ~ LiveInBook(fh, msg.stock_locate, msg.order_ref)) =>
            MissIsCounted(fh, on_order_delete(fh, msg), msg.stock_locate,
                          "orders_deleted")
    /\ \A msg \in OrderReplaceMessages :
          (~ filtered_out(fh, msg.stock_locate)
             /\ ~ LiveInBook(fh, msg.stock_locate, msg.original_order_ref)) =>
            MissIsCounted(fh, on_order_replace(fh, msg), msg.stock_locate,
                          "orders_replaced")

\* a cancel arrived for an order the book does not hold while another order
\* rests in it: the order is still there, the cancel is counted, and the
\* subscriber heard nothing
C11_Witness ==
    /\ last.op = "X"
    /\ fh.event_handler_
    /\ ~ fh.use_filter_
    /\ fed = 2
    /\ fh.metrics_.orders_added = 1
    /\ fh.metrics_.orders_cancelled = 1
    /\ \E id \in Ids :
          /\ LiveInBook(fh, 1, id)
          /\ fh.book_manager_.order_pool_.store[get_order(BookAt(fh, 1), id)].quantity = 2
    /\ events = <<>>

\* ------------------------------------------------------------------------
\* ITCHParser: unknown type tags
\* ------------------------------------------------------------------------
KnownTypes == {ord[c] : c \in DOMAIN ord \ {"Z"}}

\* buffers whose first byte is no type tag, alone or before a message
UnknownFirst ==
    {<<b>> \o rest : b \in (0..255) \ KnownTypes, rest \in {<<>>, DeleteImage}}

TypedCalls(cs) == {i \in 1..Len(cs) : cs[i].cb # "on_parse_error"}

C13_UnknownTypeConsumesNothing ==
    \A data \in UnknownFirst :
        LET r == parse_message(parser, data, Len(data)) IN
        /\ r.ret = 0
        /\ parser.stats_.parse_errors = 0 => r.parser.stats_.parse_errors = 1

\* ------------------------------------------------------------------------
\* FeedHandler::process over a raw concatenation
\* ------------------------------------------------------------------------
\* C14: when process is given a raw concatenation in which a byte that is
\* no type tag precedes complete valid messages, the unknown byte is
\* skipped and every later message is applied to the books, so the
\* returned count reaches the end of the last complete message.
C14_ProcessSkipsUnknownByte ==
    \A msgs \in ProcessImageSeqs :
        LET data == Unknown \o Concat(msgs)
            r    == process(fh, data, Len(data))
            want == process(fh, Concat(msgs), Len(Concat(msgs)))
        IN /\ r.ret = Len(data)
           /\ r.fh.book_manager_ = want.fh.book_manager_

\* what process does with such a buffer: it stops at the unknown byte
ProcessStopsAtUnknownByte ==
    \A msgs \in ProcessImageSeqs :
        LET data == Unknown \o Concat(msgs)
            r    == process(fh, data, Len(data))
        IN r.ret = 0 /\ r.fh = fh /\ r.events = <<>>

\* the readers invert the writers: a handler fed the image of a message
\* sees the message
WireRoundTrip ==
    /\ \A m \in AddOrderMessages :
          /\ AddOrderMessage(generate_add_order(m)) = m
          /\ AddOrderMessage(generate_add_order_mpid(m)) = m
    /\ \A m \in OrderExecutedMessages :
          OrderExecutedMessage(generate_order_executed(m)) = m
    /\ \A m \in OrderCancelMessages : OrderCancelMessage(generate_order_cancel(m)) = m
    /\ \A m \in OrderDeleteMessages : OrderDeleteMessage(generate_order_delete(m)) = m
    /\ \A m \in OrderReplaceMessages :
          OrderReplaceMessage(generate_order_replace(m)) = m
    /\ \A img \in ProcessImages : Len(img) = get_message_size(img[1])

\* ------------------------------------------------------------------------
\* ITCHParser: short reads and complete messages
\* ------------------------------------------------------------------------
\* a complete message of the given type
KnownImage(type) == <<type>> \o Zeros(get_message_size(type) - 1)

\* r is the result on parser p of decoding the one complete message img
DecodesOne(p, r, img) ==
    /\ r.ret = Len(img)
    /\ r.calls = IF p.handler_
                 THEN <<[cb |-> callback_of(img[1]), data |-> img, error |-> ""]>>
                 ELSE <<>>
    /\ TypedCalls(r.calls) = DOMAIN r.calls
    /\ r.parser.stats_.messages_parsed = p.stats_.messages_parsed + 1
    /\ r.parser.stats_.bytes_processed = p.stats_.bytes_processed + Len(img)
    /\ r.parser.stats_.parse_errors = p.stats_.parse_errors
    /\ r.parser.stats_.message_type_counts =
          [p.stats_.message_type_counts EXCEPT ![img[1]] = @ + 1]

\* C15: parse_message on a buffer that starts with a known type tag but
\* holds fewer bytes than that type's fixed size (max_len = 0 included)
\* returns 0, dispatches no callback and changes no counter, and a later
\* call with the complete message decodes it normally.
C15_ShortReadIsRecoverable ==
    \A type \in KnownTypes :
        LET img == KnownImage(type) IN
        /\ Len(img) \in 12..50
        /\ \A max_len \in 0..(Len(img) - 1) :
              LET r == parse_message(parser, img, max_len) IN
              /\ r.ret = 0
              /\ r.calls = <<>>
              /\ r.parser = parser
              /\ DecodesOne(r.parser, parse_message(r.parser, img, Len(img)), img)

\* a short read came after a message had been decoded: nothing was
\* dispatched and the counters still tell of the one message
C15_Witness ==
    /\ last.op = "parse_message"
    /\ last.ret = 0
    /\ fed = 2
    /\ parser.handler_
    /\ calls = <<>>
    /\ parser.stats_.messages_parsed = 1
    /\ parser.stats_.bytes_processed = 19
    /\ parser.stats_.parse_errors = 0

\* the callbacks a handler receives for the messages msgs, in order
CallsFor(msgs) ==
    [i \in 1..Len(msgs) |->
        [cb |-> callback_of(msgs[i][1]), data |-> msgs[i], error |-> ""]]

\* C16: parse over a buffer made of k complete known messages, optionally
\* followed by a truncated one, dispatches exactly one typed callback per
\* complete message in buffer order, stops at the first message that needs
\* more bytes, returns the sum of the k message sizes, and increases
\* messages_parsed by k and bytes_processed by the returned value.
C16_ParseDecodesEveryCompleteMessage ==
    \A msgs \in ImageSeqs : \A tail \in Truncated \cup {<<>>} :
        LET data == Concat(msgs) \o tail
            r    == parse(parser, data, Len(data))
        IN /\ r.ret = Len(Concat(msgs))
           /\ r.calls = IF parser.handler_ THEN CallsFor(msgs) ELSE <<>>
           /\ r.parser.stats_.messages_parsed =
                 parser.stats_.messages_parsed + Len(msgs)
           /\ r.parser.stats_.bytes_processed =
                 parser.stats_.bytes_processed + r.ret
           /\ r.parser.stats_.parse_errors = parser.stats_.parse_errors

\* parse met one complete message followed by the first byte of another
C16_Witness ==
    /\ last.op = "parse"
    /\ last.ret = 19
    /\ parser.handler_
    /\ Len(calls) = 1
    /\ calls[1].cb = "on_order_delete"
    /\ parser.stats_.messages_parsed >= 1

\* ------------------------------------------------------------------------
\* MoldUDP64 packets
\* ------------------------------------------------------------------------
\* blocks a packet is made of: a message with its own length, an unknown
\* byte, a message declared longer than it is, one declared shorter, and
\* an empty payload
Blocks ==
    {MoldBlock(19, DeleteImage), MoldBlock(1, Unknown),
     MoldBlock(21, DeleteImage \o Zeros(2)),
     MoldBlock(5, SubSeq(DeleteImage, 1, 5)), MoldBlock(0, <<>>)}

BlockSeqs == UNION {[1..n -> Blocks] : n \in 0..MaxStream}

\* whole packets; message_count may be below or above the blocks present
Packets ==
    {MoldHeader(message_count) \o Concat(blocks) :
        message_count \in 0..(MaxStream + 1), blocks \in BlockSeqs}

\* the payloads of the first n blocks from offset on that lie within the
\* first len bytes, up to the first one that does not
RECURSIVE Framed(_, _, _, _)
Framed(data, len, n, offset) ==
    IF n = 0 \/ offset + 2 > len THEN <<>>
    ELSE LET declared == data[offset + 1] * 256 + data[offset + 2] IN
         IF offset + 2 + declared > len THEN <<>>
         ELSE <<SubSeq(data, offset + 3, offset + 2 + declared)>>
              \o Framed(data, len, n - 1, offset + 2 + declared)

Keep(seq, Test(_)) ==
    LET RECURSIVE keep(_)
        keep(rest) == IF rest = <<>> THEN <<>>
                      ELSE IF Test(Head(rest)) THEN <<Head(rest)>> \o keep(Tail(rest))
                      ELSE keep(Tail(rest))
    IN keep(seq)

\* the payload holds a whole message of a known type
Decodable(payload) ==
    /\ payload # <<>>
    /\ get_message_size(payload[1]) # 0
    /\ Len(payload) >= get_message_size(payload[1])

\* the payload starts with a byte that is no type tag
UnknownTag(payload) == payload # <<>> /\ get_message_size(payload[1]) = 0

Counted(payload) == Decodable(payload) \/ UnknownTag(payload)

MessageOf(payload) == SubSeq(payload, 1, get_message_size(payload[1]))

Map(seq, Op(_)) == [i \in 1..Len(seq) |-> Op(seq[i])]

TypedOnly(cs) == Keep(cs, LAMBDA c : c.cb # "on_parse_error")

Dropped(f, r) == r.fh = f /\ r.events = <<>>

\* every handler of an order or trade message drops the messages whose
\* locate the filter of f excludes
FilterDrops(f) ==
    /\ \A msg \in AddOrderMessages :
          filtered_out(f, msg.stock_locate) =>
            Dropped(f, on_add_order(f, msg)) /\ Dropped(f, on_add_order_mpid(f, msg))
    /\ \A msg \in OrderExecutedMessages :
          filtered_out(f, msg.stock_locate) => Dropped(f, on_order_executed(f, msg))
    /\ \A msg \in OrderExecutedPriceMessages :
          filtered_out(f, msg.stock_locate) => Dropped(f, on_order_executed_price(f, msg))
    /\ \A msg \in OrderCancelMessages :
          filtered_out(f, msg.stock_locate) => Dropped(f, on_order_cancel(f, msg))
    /\ \A msg \in OrderDeleteMessages :
          filtered_out(f, msg.stock_locate) => Dropped(f, on_order_delete(f, msg))
    /\ \A msg \in OrderReplaceMessages :
          filtered_out(f, msg.stock_locate) => Dropped(f, on_order_replace(f, msg))
    /\ \A msg \in TradeMessages :
          filtered_out(f, msg.stock_locate) => Dropped(f, on_trade(f, msg))
    /\ \A msg \in CrossTradeMessages :
          filtered_out(f, msg.stock_locate) => Dropped(f, on_cross_trade(f, msg))

\* the result r of a handler on f shows the message was taken
Taken(f, r) == r.fh.metrics_.messages_processed = f.metrics_.messages_processed + 1

\* no message is dropped by f: each one is counted, and an 'A' message,
\* counted only under collect_metrics_, finds or makes its book
LetsAllThrough(f) ==
    /\ \A msg \in AddOrderMessages :
          /\ has_book(on_add_order(f, msg).fh.book_manager_, msg.stock_locate)
          /\ Taken(f, on_add_order_mpid(f, msg))
    /\ \A msg \in OrderExecutedMessages : Taken(f, on_order_executed(f, msg))
    /\ \A msg \in OrderExecutedPriceMessages :
          Taken(f, on_order_executed_price(f, msg))
    /\ \A msg \in OrderCancelMessages : Taken(f, on_order_cancel(f, msg))
    /\ \A msg \in OrderDeleteMessages : Taken(f, on_order_delete(f, msg))
    /\ \A msg \in OrderReplaceMessages : Taken(f, on_order_replace(f, msg))
    /\ \A msg \in TradeMessages : Taken(f, on_trade(f, msg))
    /\ \A msg \in CrossTradeMessages : Taken(f, on_cross_trade(f, msg))

\* C18: while a non-empty locate filter is set, an order-modifying or trade
\* message (A, F, E, C, X, D, U, P, Q) whose locate is not in the filter
\* changes nothing: no book is created or mutated, no feed counter changes
\* and no trade or BBO event is emitted; setting an empty filter or
\* clearing the filter lets every locate through.
C18_FilterDropsOtherLocates ==
    /\ \A locates \in FilterSets \ {{}} :
          /\ (\E locate \in Locates :
                  filtered_out(set_symbol_filter(fh, locates), locate))
                <=> ~ (Locates \subseteq locates)
          /\ FilterDrops(set_symbol_filter(fh, locates))
    /\ LetsAllThrough(set_symbol_filter(fh, {}))
    /\ LetsAllThrough(clear_symbol_filter(fh))

\* with a filter set that leaves the locate out, an add arrived and nothing
\* came of it
C18_Witness ==
    /\ last.op = "F"
    /\ fed = 2
    /\ fh.use_filter_
    /\ 1 \notin fh.symbol_filter_
    /\ fh.event_handler_
    /\ fh.book_manager_ = OrderBookManager_new
    /\ fh.metrics_ = FeedMetrics_new
    /\ events = <<>>

\* ------------------------------------------------------------------------
\* Feed handler: BBO-change events
\* ------------------------------------------------------------------------
EventsOfType(evs, type) == Keep(evs, LAMBDA e : e.type = type)

\* r is the result of an order handler on f for a message of locate: what
\* the subscriber heard of the BBO
BBOContract(f, r, locate) ==
    LET before == get_book(f.book_manager_, locate).books_[locate].bbo_
        after  == BookAt(r.fh, locate).bbo_
        moved  == before.bid_price # after.bid_price
                    \/ before.ask_price # after.ask_price
        heard  == EventsOfType(r.events, "bbo_update")
    IN IF ~ f.event_handler_ THEN r.events = <<>>
       ELSE /\ Len(heard) <= 1
            /\ (Len(heard) = 1) <=> moved
            /\ Len(heard) = 1 =>
                  /\ r.events[Len(r.events)] = heard[1]
                  /\ heard[1].seen = r.fh.book_manager_
                  /\ heard[1].stock_locate = locate
                  /\ heard[1].old_bbo = before
                  /\ heard[1].new_bbo = after
            /\ r.fh.metrics_.bbo_updates = f.metrics_.bbo_updates + Len(heard)

\* C19: for each order-modifying message processed with a subscriber
\* attached, on_bbo_update is invoked at most once, only after all book
\* mutations of that message (the delete and the add of a replace) are
\* complete, and exactly when the book's bid_price or ask_price after the
\* message differs from the one before it; a change of quantity at an
\* unchanged top price emits no event, and with no subscriber nothing is
\* emitted.
C19_OneBBOEventAfterMutation ==
    /\ \A msg \in AddOrderMessages :
          ~ filtered_out(fh, msg.stock_locate) =>
            /\ BBOContract(fh, on_add_order(fh, msg), msg.stock_locate)
            /\ BBOContract(fh, on_add_order_mpid(fh, msg), msg.stock_locate)
    /\ \A msg \in OrderExecutedMessages :
          ~ filtered_out(fh, msg.stock_locate) =>
            BBOContract(fh, on_order_executed(fh, msg), msg.stock_locate)
    /\ \A msg \in OrderExecutedPriceMessages :
          ~ filtered_out(fh, msg.stock_locate) =>
            BBOContract(fh, on_order_executed_price(fh, msg), msg.stock_locate)
    /\ \A msg \in OrderCancelMessages :
          ~ filtered_out(fh, msg.stock_locate) =>
            BBOContract(fh, on_order_cancel(fh, msg), msg.stock_locate)
    /\ \A msg \in OrderDeleteMessages :
          ~ filtered_out(fh, msg.stock_locate) =>
            BBOContract(fh, on_order_delete(fh, msg), msg.stock_locate)
    /\ \A msg \in OrderReplaceMessages :
          ~ filtered_out(fh, msg.stock_locate) =>
            BBOContract(fh, on_order_replace(fh, msg), msg.stock_locate)

\* two bids rest at the same price: the first add moved the best bid and
\* was reported, the second only raised the quantity there and was not
C19_Witness ==
    /\ last.op = "F"
    /\ fed = 2
    /\ fh.event_handler_
    /\ ~ fh.use_filter_
    /\ fh.metrics_.orders_added = 2
    /\ fh.metrics_.bbo_updates = 1
    /\ BookAt(fh, 1).order_count_ = 2
    /\ BookAt(fh, 1).asks_ = EmptyMap
    /\ DOMAIN BookAt(fh, 1).bids_ = {BookAt(fh, 1).bbo_.bid_price}
    /\ BookAt(fh, 1).bbo_.bid_quantity = 2
    /\ events = <<>>

\* ------------------------------------------------------------------------
\* Feed handler: trade events of executions
\* ------------------------------------------------------------------------
\* the resting order id of locate as the book manager m holds it
RestingOrder(m, locate, id) ==
    m.order_pool_.store[get_order(m.books_[locate], id)]

\* r is the result of an execution handler on f for msg, whose order is live:
\* the subscriber hears of the trade first, with the book as it was
TradeComesFirst(f, r, msg) ==
    LET locate == msg.stock_locate
        id     == msg.order_ref
    IN /\ r.events # <<>>
       /\ r.events[1].type = "trade"
       /\ r.events[1].seen = f.book_manager_
       /\ get_order(r.events[1].seen.books_[locate], id) # NULL
       /\ RestingOrder(r.events[1].seen, locate, id).quantity
            = RestingOrder(f.book_manager_, locate, id).quantity
       /\ \A i \in 2..Len(r.events) :
            /\ r.events[i].type = "bbo_update"
            /\ r.events[i].seen = r.fh.book_manager_
       /\ r.fh.book_manager_ # f.book_manager_

\* C20: for an 'E' or 'C' message on a live order with a subscriber
\* attached, the trade event is emitted before the book is mutated (the
\* resting order still has its pre-execution quantity when on_trade runs)
\* and before any BBO-change event of the same message; for 'E' the event
\* carries the resting order's price and side.
C20_TradeEventBeforeMutation ==
    /\ \A msg \in OrderExecutedMessages :
          (/\ fh.event_handler_
           /\ ~ filtered_out(fh, msg.stock_locate)
           /\ LiveInBook(fh, msg.stock_locate, msg.order_ref)) =>
            LET r == on_order_executed(fh, msg) IN
            /\ TradeComesFirst(fh, r, msg)
            /\ r.events[1].price
                 = RestingOrder(fh.book_manager_, msg.stock_locate, msg.order_ref).price
            /\ r.events[1].side
                 = RestingOrder(fh.book_manager_, msg.stock_locate, msg.order_ref).side
    /\ \A msg \in OrderExecutedPriceMessages :
          (/\ fh.event_handler_
           /\ ~ filtered_out(fh, msg.stock_locate)
           /\ LiveInBook(fh, msg.stock_locate, msg.order_ref)) =>
            TradeComesFirst(fh, on_order_executed_price(fh, msg), msg)

\* an 'E' message took the whole of the best order: the subscriber heard of
\* the trade while the order still rested, then of the BBO without it
C20_Witness ==
    /\ last.op = "E"
    /\ fh.event_handler_
    /\ Len(events) = 2
    /\ events[1].type = "trade"
    /\ events[2].type = "bbo_update"
    /\ get_order(events[1].seen.books_[events[1].stock_locate],
                 events[1].order_ref) # NULL
    /\ RestingOrder(events[1].seen, events[1].stock_locate,
                    events[1].order_ref).quantity = events[1].quantity
    /\ events[2].seen = fh.book_manager_
    /\ ~ LiveInBook(fh, events[1].stock_locate, events[1].order_ref)

\* ------------------------------------------------------------------------
\* A FeedHandler fed messages of every locate the books_ vector has, with
\* calls of book_manager().get_book and of reset() in between
\* ------------------------------------------------------------------------
AllLocates == 0..(MAX_SYMBOLS - 1)

WithLocate(msg, locate) == [msg EXCEPT !.stock_locate = locate]

ManagerAddOrderMPID ==
    \E msg \in AddOrderMessages, locate \in AllLocates :
        Deliver(on_add_order_mpid(fh, WithLocate(msg, locate)), "F")

ManagerOrderExecuted ==
    \E msg \in OrderExecutedMessages, locate \in AllLocates :
        Deliver(on_order_executed(fh, WithLocate(msg, locate)), "E")

ManagerOrderDelete ==
    \E msg \in OrderDeleteMessages, locate \in AllLocates :
        Deliver(on_order_delete(fh, WithLocate(msg, locate)), "D")

ManagerGetBook ==
    \E locate \in AllLocates :
        /\ fh' = [fh EXCEPT !.book_manager_ = get_book(@, locate)]
        /\ events' = <<>>
        /\ last' = [op |-> "get_book", ret |-> locate]
        /\ UNCHANGED <<fed, bookVars, parserVars, acquired, mapVars>>

ManagerReset ==
    /\ fh' = reset(fh)
    /\ events' = <<>>
    /\ last' = [op |-> "reset", ret |-> 0]
    /\ UNCHANGED <<fed, bookVars, parserVars, acquired, mapVars>>

NextManager ==
    \/ ManagerAddOrderMPID
    \/ ManagerOrderExecuted
    \/ ManagerOrderDelete
    \/ ManagerGetBook
    \/ ManagerReset

SpecManager == InitFeed /\ [][NextManager]_vars

\* ------------------------------------------------------------------------
\* A FeedHandler fed stock directory messages
\* ------------------------------------------------------------------------
\* the locates of the directory messages; the vector grows to hold them
DirectoryLocates == 0..MAX_SYMBOLS

\* memset(stock, ' ', 8) then the symbol's characters
Symbol(c) == <<ord[c]>> \o [i \in 1..7 |-> 32]

Symbols == {Symbol("A"), Symbol("F"), Symbol("U")}

\* the fields after financial_status are not read by the handler
generate_stock_directory(locate, symbol) ==
    MessageHeader("R", locate) \o symbol \o <<ord["Q"], ord["N"]>> \o Zeros(18)

FeedStockDirectory ==
    \E locate \in DirectoryLocates, symbol \in Symbols :
        Deliver(on_stock_directory(fh, generate_stock_directory(locate, symbol)), "R")

NextDirectory ==
    \/ FeedStockDirectory
    \/ FeedSetEventHandler

SpecDirectory == InitFeed /\ [][NextDirectory]_vars

\* ------------------------------------------------------------------------
\* One book with three orders resting on one side, at one or two prices
\* ------------------------------------------------------------------------
LevelIds == {3, 7, 11}

LevelAddOrder ==
    \E id \in LevelIds, price \in Prices, qty \in Shares :
        LET r == add_order(book, pool, id, "B", price, qty) IN
        /\ book' = r.book
        /\ pool' = r.pool
        /\ last' = [op |-> "add_order", ret |-> r.ret]
        /\ UNCHANGED <<feedVars, parserVars, acquired, mapVars>>

LevelExecuteOrder ==
    \E id \in LevelIds, qty \in Shares :
        LET r == execute_order(book, pool, id, qty) IN
        /\ book' = r.book
        /\ pool' = r.pool
        /\ last' = [op |-> "execute_order", ret |-> r.ret]
        /\ UNCHANGED <<feedVars, parserVars, acquired, mapVars>>

LevelCancelOrder ==
    \E id \in LevelIds, qty \in Shares :
        LET r == cancel_order(book, pool, id, qty) IN
        /\ book' = r.book
        /\ pool' = r.pool
        /\ last' = [op |-> "cancel_order", ret |-> r.ret]
        /\ UNCHANGED <<feedVars, parserVars, acquired, mapVars>>

LevelDeleteOrder ==
    \E id \in LevelIds :
        LET r == delete_order(book, pool, id) IN
        /\ book' = r.book
        /\ pool' = r.pool
        /\ last' = [op |-> "delete_order", ret |-> r.ret]
        /\ UNCHANGED <<feedVars, parserVars, acquired, mapVars>>

\* delete_order(id) followed by add_order(id, ..) with the fields the order had
delete_then_add(b, p, id) ==
    LET o == p.store[get_order(b, id)]
        d == delete_order(b, p, id)
    IN add_order(d.book, d.pool, id, o.side, o.price, o.quantity)

LevelDeleteThenAdd ==
    \E id \in LevelIds :
        /\ get_order(book, id) # NULL
        /\ LET r == delete_then_add(book, pool, id) IN
           /\ book' = r.book
           /\ pool' = r.pool
           /\ last' = [op |-> "delete_order, add_order", ret |-> r.ret]
        /\ UNCHANGED <<feedVars, parserVars, acquired, mapVars>>

NextLevel ==
    \/ LevelDeleteThenAdd
    \/ LevelAddOrder
    \/ LevelExecuteOrder
    \/ LevelCancelOrder
    \/ LevelDeleteOrder

SpecLevel == InitBook /\ [][NextLevel]_vars

\* ------------------------------------------------------------------------
\* An ObjectPool whose caller acquires slots and releases slots it holds
\* ------------------------------------------------------------------------
MaxHeld == 4

PoolAcquire ==
    LET r == acquire(pool) IN
    /\ Cardinality(acquired) < MaxHeld
    /\ pool' = r.pool
    /\ acquired' = acquired \cup {r.obj}
    /\ last' = [op |-> "acquire", ret |-> r.obj]
    /\ UNCHANGED <<book, feedVars, parserVars, mapVars>>

PoolRelease ==
    \E obj \in acquired :
        /\ pool' = release(pool, obj)
        /\ acquired' = acquired \ {obj}
        /\ last' = [op |-> "release", ret |-> obj]
        /\ UNCHANGED <<book, feedVars, parserVars, mapVars>>

NextPool ==
    \/ PoolAcquire
    \/ PoolRelease

SpecPool == InitBook /\ [][NextPool]_vars

\* ------------------------------------------------------------------------
\* Feed handler: counters
\* ------------------------------------------------------------------------
\* r is the result of a handler on f: messages_processed and the counter of
\* the message kind went up by one
CountedOnce(f, r, counter) ==
    /\ r.fh.metrics_.messages_processed = f.metrics_.messages_processed + 1
    /\ r.fh.metrics_[counter] = f.metrics_[counter] + 1

\* C21: for every unfiltered order-modifying message the orchestrator
\* applies (A, F, E, C, X, D, U), messages_processed increases by exactly
\* one and the counter of that message kind (orders_added, orders_executed,
\* orders_cancelled, orders_deleted, orders_replaced) increases by exactly
\* one, whether or not latency metrics collection is enabled.
C21_EveryMessageCountedOnce ==
    /\ \A msg \in AddOrderMessages :
          ~ filtered_out(fh, msg.stock_locate) =>
            /\ CountedOnce(fh, on_add_order(fh, msg), "orders_added")
            /\ CountedOnce(fh, on_add_order_mpid(fh, msg), "orders_added")
    /\ \A msg \in OrderExecutedMessages :
          ~ filtered_out(fh, msg.stock_locate) =>
            CountedOnce(fh, on_order_executed(fh, msg), "orders_executed")
    /\ \A msg \in OrderExecutedPriceMessages :
          ~ filtered_out(fh, msg.stock_locate) =>
            CountedOnce(fh, on_order_executed_price(fh, msg), "orders_executed")
    /\ \A msg \in OrderCancelMessages :
          ~ filtered_out(fh, msg.stock_locate) =>
            CountedOnce(fh, on_order_cancel(fh, msg), "orders_cancelled")
    /\ \A msg \in OrderDeleteMessages :
          ~ filtered_out(fh, msg.stock_locate) =>
            CountedOnce(fh, on_order_delete(fh, msg), "orders_deleted")
    /\ \A msg \in OrderReplaceMessages :
          ~ filtered_out(fh, msg.stock_locate) =>
            CountedOnce(fh, on_order_replace(fh, msg), "orders_replaced")

\* what does hold: every kind but 'A' is counted once, and 'A' is counted
\* once exactly when collect_metrics_ is set
CountedOnceButPlainAdd ==
    /\ \A msg \in AddOrderMessages :
          ~ filtered_out(fh, msg.stock_locate) =>
            /\ CountedOnce(fh, on_add_order_mpid(fh, msg), "orders_added")
            /\ IF fh.collect_metrics_
               THEN CountedOnce(fh, on_add_order(fh, msg), "orders_added")
               ELSE LET m == on_add_order(fh, msg).fh.metrics_
                    IN /\ m.messages_processed = fh.metrics_.messages_processed
                       /\ m.orders_added = fh.metrics_.orders_added
    /\ \A msg \in OrderExecutedMessages :
          ~ filtered_out(fh, msg.stock_locate) =>
            CountedOnce(fh, on_order_executed(fh, msg), "orders_executed")
    /\ \A msg \in OrderCancelMessages :
          ~ filtered_out(fh, msg.stock_locate) =>
            CountedOnce(fh, on_order_cancel(fh, msg), "orders_cancelled")
    /\ \A msg \in OrderDeleteMessages :
          ~ filtered_out(fh, msg.stock_locate) =>
            CountedOnce(fh, on_order_delete(fh, msg), "orders_deleted")
    /\ \A msg \in OrderReplaceMessages :
          ~ filtered_out(fh, msg.stock_locate) =>
            CountedOnce(fh, on_order_replace(fh, msg), "orders_replaced")

\* ------------------------------------------------------------------------
\* OrderBookManager
\* ------------------------------------------------------------------------
\* mgr with add_order(id, side, price, quantity) applied to its book of locate
AddedTo(mgr, locate, id, side, price, quantity) ==
    LET r == add_order(mgr.books_[locate], mgr.order_pool_, id, side, price, quantity)
    IN [books_ |-> [mgr.books_ EXCEPT ![locate] = r.book], order_pool_ |-> r.pool]

\* get_book(locate) on mgr returns the one book of locate
OneBookOf(mgr, locate) ==
    LET m1 == get_book(mgr, locate) IN
    /\ has_book(m1, locate)
    /\ has_book(mgr, locate) => m1 = mgr
    /\ get_book(m1, locate) = m1
    /\ \A other \in AllLocates \ {locate} :
          /\ m1.books_[other] = mgr.books_[other]
          /\ has_book(m1, other) <=> has_book(mgr, other)
    /\ \A id \in Ids, side \in Sides, price \in Prices, quantity \in Shares :
          LET m2 == AddedTo(m1, locate, id, side, price, quantity) IN
          /\ get_book(m2, locate) = m2
          /\ get_order(m1.books_[locate], id) = NULL =>
                get_order(get_book(m2, locate).books_[locate], id) # NULL

\* C22: for every locate L, get_book(L) returns the one book of L: repeated
\* calls return the same book with the orders added through earlier calls
\* still in it, books of different locates are distinct, and has_book(L) is
\* true exactly when get_book(L) has been called before.
C22_GetBookReturnsTheOneBook ==
    LET mgr == fh.book_manager_ IN
    /\ \A locate \in AllLocates : OneBookOf(mgr, locate)
    /\ \A locate \in AllLocates :
          mgr.books_[locate].order_count_ > 0 => has_book(mgr, locate)
    /\ last.op = "get_book" => has_book(mgr, last.ret)

\* what does hold: the contract for every locate but 0
OneBookOfNonZeroLocate ==
    \A locate \in AllLocates \ {0} : OneBookOf(fh.book_manager_, locate)

\* the slots of the orders of book b: linked in a level or mapped by the index
SlotsOf(b, p) ==
    {sl \in 1..ObjectPool_capacity(p) : InSomeLevel(b, p, sl)}
    \cup {b.orders_.entries_[i].order :
            i \in {j \in DOMAIN b.orders_.entries_ : b.orders_.entries_[j].id # 0}}

IsClearedBook(b) ==
    /\ b.bids_ = EmptyMap
    /\ b.asks_ = EmptyMap
    /\ b.orders_.load_ = 0
    /\ \A i \in DOMAIN b.orders_.entries_ : b.orders_.entries_[i] = EmptyEntry
    /\ \A id \in Ids : get_order(b, id) = NULL
    /\ b.bbo_ = BBO_new
    /\ b.order_count_ = 0

\* C23: after OrderBookManager::clear(), total_order_count() is 0, every
\* book has no bid or ask level, an empty index and a reset BBO, and every
\* pool slot that was held by an order of any book is back on the pool's
\* free list.
C23_ClearEmptiesEveryBook ==
    LET mgr == fh.book_manager_
        m   == OrderBookManager_clear(mgr)
    IN /\ total_order_count(m) = 0
       /\ \A i \in AllLocates :
            /\ IsClearedBook(m.books_[i])
            /\ m.books_[i].stock_locate_ = mgr.books_[i].stock_locate_
            /\ \A sl \in SlotsOf(mgr.books_[i], mgr.order_pool_) :
                  Occurrences(m.order_pool_.free_list_, sl) = 1
       /\ ObjectPool_capacity(m.order_pool_) = ObjectPool_capacity(mgr.order_pool_)
       /\ ObjectPool_available(m.order_pool_)
            = ObjectPool_available(mgr.order_pool_) + total_order_count(mgr)

\* reset() was called with three orders resting, bids or asks, in the books
\* of both locates: the three slots the adds took are free again
C23_Witness ==
    /\ last.op = "reset"
    /\ fed = 3
    /\ ObjectPool_capacity(fh.book_manager_.order_pool_) = 3 * BlockSize
    /\ ObjectPool_available(fh.book_manager_.order_pool_) = 3 * BlockSize
    /\ total_order_count(fh.book_manager_) = 0
    /\ \A i \in AllLocates : IsClearedBook(fh.book_manager_.books_[i])
    /\ has_book(fh.book_manager_, 1)

\* ------------------------------------------------------------------------
\* SymbolDirectory
\* ------------------------------------------------------------------------
\* C24: after any sequence of add_symbol calls, the two maps of the symbol
\* directory are inverses on active symbols: for every locate L with
\* get_info(L) non-null, get_locate(get_info(L).symbol) = L, and for every
\* symbol S with get_locate(S) = L, get_info(L).symbol = S; this includes
\* sequences that re-add a locate with another symbol or a symbol under
\* another locate.
C24_DirectoryMapsAreInverses ==
    LET dir == fh.symbol_directory_ IN
    /\ \A locate \in DirectoryLocates :
          get_info(dir, locate) # NULL =>
            get_locate(dir, dir.symbols_[get_info(dir, locate)].symbol)
              = [has_value |-> TRUE, value |-> locate]
    /\ \A symbol \in Symbols :
          get_locate(dir, symbol).has_value =>
            /\ get_info(dir, get_locate(dir, symbol).value) # NULL
            /\ dir.symbols_[get_info(dir, get_locate(dir, symbol).value)].symbol
                 = symbol

\* what does hold: every symbol with a locate names an active locate, and
\* the symbol of every active locate has some locate
DirectoryEntriesAreActive ==
    LET dir == fh.symbol_directory_ IN
    /\ \A symbol \in Symbols :
          get_locate(dir, symbol).has_value =>
            get_info(dir, get_locate(dir, symbol).value) # NULL
    /\ \A locate \in DirectoryLocates :
          get_info(dir, locate) # NULL =>
            get_locate(dir, dir.symbols_[get_info(dir, locate)].symbol).has_value

\* ------------------------------------------------------------------------
\* Market depth
\* ------------------------------------------------------------------------
MaxLevels == MaxPrice + 1

\* depth is what a depth query for n levels of map returned
IsDepthOf(depth, map, n) ==
    /\ Len(depth) = Min(n, Cardinality(DOMAIN map))
    /\ \A i \in 1..Len(depth) :
          /\ depth[i].price \in DOMAIN map
          /\ depth[i].quantity = map[depth[i].price].total_quantity_
          /\ depth[i].order_count = map[depth[i].price].order_count_

\* C25: bid_depth(n) returns min(n, number of bid levels) tuples in strictly
\* descending price order and ask_depth(n) returns min(n, number of ask
\* levels) tuples in strictly ascending price order, each tuple holding the
\* level's price, total_quantity and order_count.
C25_DepthInPriceOrder ==
    \A n \in 0..MaxLevels :
        LET bid == bid_depth(book, n)
            ask == ask_depth(book, n)
        IN /\ IsDepthOf(bid, book.bids_, n)
           /\ IsDepthOf(ask, book.asks_, n)
           /\ \A i \in 1..(Len(bid) - 1) : bid[i].price > bid[i + 1].price
           /\ \A i \in 1..(Len(ask) - 1) : ask[i].price < ask[i + 1].price
           /\ \A i \in 1..Len(bid) :
                 \A p \in DOMAIN book.bids_ :
                     p > bid[i].price => \E j \in 1..(i - 1) : bid[j].price = p
           /\ \A i \in 1..Len(ask) :
                 \A p \in DOMAIN book.asks_ :
                     p < ask[i].price => \E j \in 1..(i - 1) : ask[j].price = p

\* two bid levels rest in the book: bid_depth(1) is cut to the best one and
\* bid_depth(2) lists both, best first
C25_Witness ==
    /\ Cardinality(DOMAIN book.bids_) = 2
    /\ Len(bid_depth(book, 1)) = 1
    /\ bid_depth(book, 1)[1].price = MaxPrice
    /\ Len(bid_depth(book, MaxLevels)) = 2
    /\ bid_depth(book, 2)[2].price < bid_depth(book, 2)[1].price
    /\ ask_depth(book, 2) = <<>>

\* ------------------------------------------------------------------------
\* Price-time priority
\* ------------------------------------------------------------------------
LevelKeys == Sides \X Prices

\* the list of the level at key k of book b, empty when there is no level
ListAt(b, p, k) == IF k \in AllKeys(b) THEN LevelList(LevelAt(b, k), p) ELSE <<>>

\* every level's head is the first and its tail the last of its list
EndsOfList(b, p) ==
    \A k \in AllKeys(b) :
        LET l == LevelList(LevelAt(b, k), p) IN
        /\ l # <<>>
        /\ LevelAt(b, k).head_ = l[1]
        /\ LevelAt(b, k).tail_ = l[Len(l)]

\* r is the result of add_order(id, side, price, ..) on b: a new order is
\* the tail of its level, the lists are otherwise as they were
AddGoesToTail(b, p, r, side, price) ==
    \A k \in LevelKeys :
        ListAt(r.book, r.pool, k)
          = IF r.ret # NULL /\ k = <<side, price>>
            THEN Append(ListAt(b, p, k), r.ret)
            ELSE ListAt(b, p, k)

\* r is the result of taking qty off order id of b (all of it when whole):
\* an order that keeps a rest stays where it is, one that is used up leaves
\* and the others keep their order
TakeKeepsOrder(b, p, r, id, qty, whole) ==
    LET s == get_order(b, id) IN
    \A k \in LevelKeys :
        ListAt(r.book, r.pool, k)
          = IF s # NULL /\ (whole \/ qty >= p.store[s].quantity)
            THEN RemoveAll(ListAt(b, p, k), s)
            ELSE ListAt(b, p, k)

\* C26: within each price level the list order is the arrival order of the
\* orders still resting there: the head is the oldest, a new order goes to
\* the tail, removing any order (head, middle or tail) keeps the relative
\* order of the others, and a partial execution or cancel does not move the
\* order.
C26_LevelListIsArrivalOrder ==
    /\ EndsOfList(book, pool)
    /\ \A id \in LevelIds, side \in Sides, price \in Prices, qty \in Shares :
          AddGoesToTail(book, pool, add_order(book, pool, id, side, price, qty),
                        side, price)
    /\ \A id \in LevelIds, qty \in Shares :
          /\ TakeKeepsOrder(book, pool, execute_order(book, pool, id, qty),
                            id, qty, FALSE)
          /\ TakeKeepsOrder(book, pool, cancel_order(book, pool, id, qty),
                            id, qty, FALSE)
    /\ \A id \in LevelIds :
          TakeKeepsOrder(book, pool, delete_order(book, pool, id), id, 0, TRUE)

\* three orders arrived at one price in the slots 1, 2 and 3 and the middle
\* one has just been removed: the oldest is still the head, the youngest
\* the tail
C26_Witness ==
    /\ last.op = "delete_order"
    /\ last.ret
    /\ ObjectPool_capacity(pool) = 3 * BlockSize
    /\ pool.free_list_ = <<2>>
    /\ \E price \in Prices :
          /\ AllKeys(book) = {<<"B", price>>}
          /\ ListAt(book, pool, <<"B", price>>) = <<1, 3>>

\* ------------------------------------------------------------------------
\* ObjectPool
\* ------------------------------------------------------------------------
\* C27: for the object pool, after any sequence of acquire and release of
\* acquired slots, available() = capacity() minus the number of slots
\* currently held by callers; acquire on an empty free list grows capacity
\* by exactly one block and still returns a slot; capacity never decreases.
C27_PoolAccountsForEverySlot ==
    /\ ObjectPool_available(pool)
         = ObjectPool_capacity(pool) - Cardinality(acquired)
    /\ LET r == acquire(pool) IN
       /\ r.obj \in (1..ObjectPool_capacity(r.pool)) \ acquired
       /\ ObjectPool_capacity(r.pool)
            = IF ObjectPool_available(pool) = 0
              THEN ObjectPool_capacity(pool) + BlockSize
              ELSE ObjectPool_capacity(pool)
       /\ ObjectPool_available(r.pool)
            = ObjectPool_capacity(r.pool) - Cardinality(acquired) - 1
    /\ \A obj \in acquired :
          /\ ObjectPool_capacity(release(pool, obj)) = ObjectPool_capacity(pool)
          /\ ObjectPool_available(release(pool, obj)) = ObjectPool_available(pool) + 1

\* the caller held every slot of the first block, asked for one more and was
\* given a slot of a second block
C27_Witness ==
    /\ last.op = "acquire"
    /\ pool.blocks_ = 2
    /\ Cardinality(acquired) = BlockSize + 1
    /\ last.ret \in acquired
    /\ last.ret > BlockSize
    /\ ObjectPool_available(pool) = BlockSize - 1

\* ------------------------------------------------------------------------
\* Pool slots across the books of a FeedHandler
\* ------------------------------------------------------------------------
\* C28: across a whole FeedHandler (all books sharing the manager's pool),
\* after any sequence of messages a pool slot is free (released to the pool)
\* if and only if it is linked in no price level and is mapped by no
\* order-id index; equivalently the number of slots held out of the pool
\* equals total_order_count().
C28_HeldSlotsAreTheBooksOrders ==
    LET mgr == fh.book_manager_
        p   == mgr.order_pool_
    IN /\ \A sl \in 1..ObjectPool_capacity(p) :
            (sl \in Range(p.free_list_))
              <=> (\A i \in AllLocates : sl \notin SlotsOf(mgr.books_[i], p))
       /\ Cardinality(HeldSlots(p)) = total_order_count(mgr)
       /\ ObjectPool_available(p) + total_order_count(mgr) = ObjectPool_capacity(p)

\* ------------------------------------------------------------------------
\* Delete followed by add
\* ------------------------------------------------------------------------
\* the book as the claims describe it, pool slots and index layout aside:
\* per level the resting orders in list order with the cached totals, the
\* order each id is indexed to, the BBO and the order count
OrderFields(o) == [order_id |-> o.order_id, side |-> o.side, price |-> o.price,
                   quantity |-> o.quantity]

Abstract(b, p) ==
    [levels |-> [k \in AllKeys(b) |->
                   [orders         |-> [i \in DOMAIN LevelList(LevelAt(b, k), p) |->
                                          OrderFields(p.store[LevelList(LevelAt(b, k), p)[i]])],
                    price          |-> LevelAt(b, k).price_,
                    total_quantity |-> LevelAt(b, k).total_quantity_,
                    order_count    |-> LevelAt(b, k).order_count_]],
     index  |-> [id \in {i \in LevelIds : get_order(b, i) # NULL} |->
                   OrderFields(p.store[get_order(b, id)])],
     bbo    |-> b.bbo_,
     order_count |-> b.order_count_]

\* the abstract book a without order o
Without(a, o) ==
    LET k    == <<o.side, o.price>>
        rest == SelectSeq(a.levels[k].orders, LAMBDA x : x.order_id # o.order_id)
        keys == IF rest = <<>> THEN DOMAIN a.levels \ {k} ELSE DOMAIN a.levels
    IN [levels |-> [j \in keys |->
                      IF j = k
                      THEN [a.levels[k] EXCEPT !.orders = rest,
                               !.total_quantity = (@ - o.quantity) % QtyMod,
                               !.order_count = @ - 1]
                      ELSE a.levels[j]],
        index  |-> [id \in DOMAIN a.index \ {o.order_id} |-> a.index[id]],
        order_count |-> a.order_count - 1]

\* the abstract book a with order o moved to the tail of its level
MovedToTail(a, o) ==
    [a EXCEPT !.levels[<<o.side, o.price>>].orders =
                  Append(SelectSeq(@, LAMBDA x : x.order_id # o.order_id), o)]

\* C29: for a book in which order id is live with fields F, delete_order(id)
\* followed by add_order(id, F) leaves the book (levels, list order within
\* each level, cached totals, index, BBO, order_count) in the same state,
\* timestamps aside, as add_order(id, F) applied alone to the book without
\* that order.
C29_DeleteThenAddIsAddAlone ==
    \A id \in LevelIds :
        get_order(book, id) # NULL =>
          LET o    == OrderFields(pool.store[get_order(book, id)])
              a    == Abstract(book, pool)
              d    == delete_order(book, pool, id)
              gone == Abstract(d.book, d.pool)
              both == delete_then_add(book, pool, id)
          IN /\ both.ret # NULL
             /\ gone.levels = Without(a, o).levels
             /\ gone.index = Without(a, o).index
             /\ gone.order_count = Without(a, o).order_count
             /\ BBOReflectsLevels(d.book)
             /\ Abstract(both.book, both.pool) = MovedToTail(a, o)
             /\ BBOReflectsLevels(both.book)

\* three orders arrived at one price in the slots 1, 2 and 3; the middle one
\* has just been deleted and added again with its fields and is the tail
C29_Witness ==
    /\ last.op = "delete_order, add_order"
    /\ last.ret = 2
    /\ ObjectPool_capacity(pool) = 3 * BlockSize
    /\ pool.free_list_ = <<>>
    /\ \E price \in Prices :
          /\ AllKeys(book) = {<<"B", price>>}
          /\ ListAt(book, pool, <<"B", price>>) = <<1, 3, 2>>

---------------------------------------------------------------------------
\* The assertion of reduce_quantity

\* C30: the core never aborts on any message sequence: in every call of
\* PriceLevel::reduce_quantity reached through execute_order or cancel_order,
\* delta <= order.quantity holds, so the assertion guarding it never fails,
\* whatever executed or cancelled share count the message carries.
C30_ReduceQuantityAssertionHolds ==
    \A id \in Ids, qty \in Quantities :
        /\ execute_order(book, pool, id, qty).assert_ok
        /\ cancel_order(book, pool, id, qty).assert_ok

\* an execute_order has acted, and an order of one share rests in the book
\* on which a share count of QtyMod - 1 takes the one share and removes it
C30_Witness ==
    /\ last.op \in {"execute_order", "cancel_order"}
    /\ \E id \in Ids :
          /\ get_order(book, id) # NULL
          /\ pool.store[get_order(book, id)].quantity = 1
          /\ LET r == execute_order(book, pool, id, QtyMod - 1) IN
             /\ r.ret = 1
             /\ r.assert_ok
             /\ get_order(r.book, id) = NULL

---------------------------------------------------------------------------
\* OrderMap driven directly: put and remove over distinct non-zero ids,
\* next to a reference map.  With a table of 8 entries the ids 7, 15 and 23
\* hash to the last entry, so their cluster wraps around the table's end;
\* 3 hashes to the middle.  Records are the pool slots 1 and 2.

MapIds == {3, 7, 15, 23}
MapOrders == {1, 2}
\* an id that is never put
StrangerIds == {31}

MapPut ==
    \E id \in MapIds \ DOMAIN ref, order \in MapOrders :
        /\ table' = put(table, id, order)
        /\ ref' = [i \in DOMAIN ref \cup {id} |-> IF i = id THEN order ELSE ref[i]]
        /\ last' = [op |-> "put", ret |-> id]
        /\ UNCHANGED <<book, pool, acquired, feedVars, parserVars>>

MapRemove ==
    \E id \in MapIds :
        /\ table' = remove(table, id)
        /\ ref' = [i \in DOMAIN ref \ {id} |-> ref[i]]
        /\ last' = [op |-> "remove", ret |-> id]
        /\ UNCHANGED <<book, pool, acquired, feedVars, parserVars>>

NextMap ==
    \/ MapPut
    \/ MapRemove

SpecMap == InitBook /\ [][NextMap]_vars

\* C31: OrderMap behaves like a reference map: after any sequence of put and
\* remove over distinct non-zero ids (clusters that wrap around the end of
\* the table and resizes included), find(id) returns the record last put for
\* every id that was put and not removed, and null for every other id.
C31_FindIsReferenceLookup ==
    \A id \in MapIds \cup StrangerIds :
        find(table, id) = IF id \in DOMAIN ref THEN ref[id] ELSE NULL

\* the table has been resized to 8 entries, 7 has just been removed from the
\* head of a cluster that wrapped, and 15 and 23 were shifted back to the
\* entries 7 and 0
C31_Witness ==
    /\ last = [op |-> "remove", ret |-> 7]
    /\ table.capacity_ = 4 * InitialCapacity
    /\ table.entries_[table.mask_].id = 15
    /\ table.entries_[0].id = 23
    /\ DOMAIN ref = {3, 15, 23}

---------------------------------------------------------------------------
\* The parser statistics of a FeedHandler

\* the number of images of msgs that carry the type tag t
TagCount(msgs, t) == Cardinality({i \in DOMAIN msgs : msgs[i][1] = t})

\* C32: after FeedHandler::process has decoded k messages, parser_stats()
\* reports messages_parsed = k, bytes_processed = the sum of their sizes, and
\* a per-type count for each tag equal to the number of messages of that
\* type; an unknown type tag increments parse_errors.
C32_ParserStatsCountDecoded ==
    /\ \A msgs \in ProcessImageSeqs :
          LET data   == Concat(msgs)
              before == parser_stats(fh)
              after  == parser_stats(process(fh, data, Len(data)).fh)
          IN /\ after.messages_parsed = before.messages_parsed + Len(msgs)
             /\ after.bytes_processed = before.bytes_processed + Len(data)
             /\ \A t \in {ord["A"], ord["F"], ord["D"], ord["E"]} :
                   after.message_type_counts[t]
                       = before.message_type_counts[t] + TagCount(msgs, t)
    /\ \A img \in ProcessImages :
          parser_stats(process(fh, Unknown \o img, Len(Unknown \o img)).fh).parse_errors
              = parser_stats(fh).parse_errors + 1

---------------------------------------------------------------------------
\* Retrieving what add_order inserted

\* add_order(id, ...) on (b, p): when it inserts a record, get_order finds
\* that record under id and a second add_order with id is rejected
Retrievable(b, p, id) ==
    \A side \in Sides, price \in Prices, qty \in Quantities :
        LET r == add_order(b, p, id, side, price, qty) IN
        r.ret # NULL =>
            /\ get_order(r.book, id) = r.ret
            /\ add_order(r.book, r.pool, id, side, price, qty).ret = NULL

\* C33: every record that add_order inserts into a price level can be
\* retrieved with get_order under its id, for every OrderId value including
\* 0, and a second add_order with that id is rejected as a duplicate.
C33_AddedOrderIsRetrievable ==
    \A id \in Ids \cup {0} : Retrievable(book, pool, id)

\* the same for the non-zero ids only
RetrievableNonZero ==
    \A id \in Ids : Retrievable(book, pool, id)

---------------------------------------------------------------------------
\* has_bid and has_ask

\* C34: in every reachable state of an OrderBook, bbo().has_bid() is true
\* exactly when the book has at least one bid level and bbo().has_ask() is
\* true exactly when it has at least one ask level, including when an order
\* is added with quantity 0.
C34_HasSideIffLevelExists ==
    /\ has_bid(book.bbo_) <=> DOMAIN book.bids_ # {}
    /\ has_ask(book.bbo_) <=> DOMAIN book.asks_ # {}

\* has_bid and has_ask are never true of an empty side
HasSideOnlyIfLevelExists ==
    /\ has_bid(book.bbo_) => DOMAIN book.bids_ # {}
    /\ has_ask(book.bbo_) => DOMAIN book.asks_ # {}

---------------------------------------------------------------------------
\* The index get_book uses

\* StockLocate is an unsigned 16-bit integer: what be16_to_host can return
StockLocateValues == 0..(2^16 - 1)

\* C35: for every 16-bit stock_locate value a message can carry, the feed
\* orchestrator's call to get_book(locate) indexes the manager's book array
\* inside its bounds (the array has MAX_SYMBOLS entries).
C35_GetBookIndexInBounds ==
    \A locate \in StockLocateValues :
        locate \in DOMAIN fh.book_manager_.books_

\* the locates has_book accepts are inside the bounds of the array
HasBookIsInBounds ==
    \A locate \in StockLocateValues :
        locate < MAX_SYMBOLS => locate \in DOMAIN fh.book_manager_.books_

---------------------------------------------------------------------------
\* Feed handler: the quantity of a trade event

\* r is the result of an execution handler on f for msg, whose order is live:
\* the trade event carries what execute_order took from the resting order
TradeCarriesRemoved(f, r, msg) ==
    LET locate == msg.stock_locate
        id     == msg.order_ref
        taken  == execute_order(BookAt(f, locate), f.book_manager_.order_pool_,
                                id, msg.executed_shares).ret
    IN /\ r.events # <<>>
       /\ r.events[1].type = "trade"
       /\ r.events[1].quantity = taken
       /\ r.events[1].quantity <= RestingOrder(f.book_manager_, locate, id).quantity

\* C36: for an 'E' or 'C' message on a live order, the quantity carried by
\* the emitted trade event equals the quantity actually removed from the
\* resting order (the value execute_order returns), so the trade quantities
\* reported for one order never add up to more than its original quantity.
C36_TradeQuantityIsRemovedQuantity ==
    /\ \A msg \in OrderExecutedMessages :
          (/\ fh.event_handler_
           /\ ~ filtered_out(fh, msg.stock_locate)
           /\ LiveInBook(fh, msg.stock_locate, msg.order_ref)) =>
            TradeCarriesRemoved(fh, on_order_executed(fh, msg), msg)
    /\ \A msg \in OrderExecutedPriceMessages :
          (/\ fh.event_handler_
           /\ ~ filtered_out(fh, msg.stock_locate)
           /\ LiveInBook(fh, msg.stock_locate, msg.order_ref)) =>
            TradeCarriesRemoved(fh, on_order_executed_price(fh, msg), msg)

\* the trade event carries the executed_shares of the message
TradeCarriesMessageShares ==
    \A msg \in OrderExecutedMessages :
        (/\ fh.event_handler_
         /\ ~ filtered_out(fh, msg.stock_locate)
         /\ LiveInBook(fh, msg.stock_locate, msg.order_ref)) =>
          on_order_executed(fh, msg).events[1].quantity = msg.executed_shares

---------------------------------------------------------------------------
\* ITCHParser: what parse_moldudp64 returns

\* parse_moldudp64 of data returns the number of typed callbacks it made,
\* which is the increase of stats().messages_parsed
ReturnsDecoded(p, data) ==
    LET r == parse_moldudp64(p, data, Len(data)) IN
    /\ r.ret = r.parser.stats_.messages_parsed - p.stats_.messages_parsed
    /\ p.handler_ => r.ret = Len(TypedOnly(r.calls))

\* C37: the value returned by ITCHParser::parse_moldudp64 equals the number
\* of inner messages dispatched to a typed callback during the call (the
\* increase of stats().messages_parsed), also when a payload starts with an
\* unknown type tag or declares a length different from its type's fixed
\* size.
C37_MoldReturnsDecodedCount ==
    \A data \in Packets : ReturnsDecoded(parser, data)

\* the same for the packets that hold no payload with an unknown type tag
MoldReturnsDecodedOfKnownTags ==
    \A data \in Packets :
        (\A payload \in Range(Framed(data, Len(data), be16_to_host(data, 18), HEADER_SIZE)) :
            ~ UnknownTag(payload))
          => ReturnsDecoded(parser, data)

---------------------------------------------------------------------------
\* replace_order that fails

\* replace_order(old, new, ...) on (b, p) returns null only with the book
\* and the pool as they were
FailureChangesNothing(b, p, old, new) ==
    \A qty \in Quantities, price \in Prices :
        LET r == replace_order(b, p, old, new, qty, price) IN
        r.ret = NULL => r.book = b /\ r.pool = p

\* C38: replace_order is all-or-nothing: whenever it returns failure (null)
\* the book is exactly as it was before the call, including when old_id is
\* live and new_id is already the id of another live order (old_id then
\* remains in the book).
C38_ReplaceIsAllOrNothing ==
    \A old \in Ids, new \in Ids : FailureChangesNothing(book, pool, old, new)

\* the same unless new_id is the id of another live order
ReplaceIsAllOrNothingUnlessNewIsLive ==
    \A old \in Ids, new \in Ids :
        (new = old \/ get_order(book, new) = NULL)
          => FailureChangesNothing(book, pool, old, new)

---------------------------------------------------------------------------
\* The width of total_quantity

\* the true sum of the quantities resting at level k of b, not reduced
\* modulo QtyMod
TrueTotal(b, p, k) == SumQty(p.store, LevelList(LevelAt(b, k), p))

\* C39: with quantities taken from the full range of Quantity, a price
\* level's cached total_quantity (and so bbo.bid_quantity / ask_quantity)
\* never wraps around: it equals the true sum of the quantities of the
\* orders resting at that price even when that sum exceeds QtyMod - 1.
C39_TotalQuantityNeverWraps ==
    /\ \A k \in AllKeys(book) :
          LevelAt(book, k).total_quantity_ = TrueTotal(book, pool, k)
    /\ DOMAIN book.bids_ # {} =>
          book.bbo_.bid_quantity
              = TrueTotal(book, pool, <<"B", bids_begin(book.bids_)>>)
    /\ DOMAIN book.asks_ # {} =>
          book.bbo_.ask_quantity
              = TrueTotal(book, pool, <<"S", asks_begin(book.asks_)>>)

\* the cached total is the true sum reduced modulo QtyMod
TotalQuantityIsSumModulo ==
    \A k \in AllKeys(book) :
        LevelAt(book, k).total_quantity_ = TrueTotal(book, pool, k) % QtyMod

---------------------------------------------------------------------------
\* OrderMap: the probing loops end

Occupied(m) == Cardinality({i \in DOMAIN m.entries_ : m.entries_[i].id # 0})

\* m's capacity is a power of two, mask_ selects an index of the table, and
\* at most half of the entries are occupied
HalfEmpty(m) ==
    /\ m.capacity_ = PowerOfTwoAtLeast(1, m.capacity_)
    /\ m.mask_ = m.capacity_ - 1
    /\ DOMAIN m.entries_ = 0..m.mask_
    /\ m.load_ = Occupied(m)
    /\ Occupied(m) * 2 <= m.capacity_

\* a loop that starts at any index of m and advances by one entry modulo
\* the capacity meets an empty entry within capacity_ steps
EveryProbeEnds(m) ==
    \A idx \in 0..m.mask_ :
        \E steps \in 0..m.mask_ :
            m.entries_[BitAnd(idx + steps, m.mask_)].id = 0

\* C40: every probing loop of OrderMap (find, put, remove with its backward
\* shift, and the reinsertion in resize) terminates in every reachable table
\* state, because after each put the number of occupied slots is at most
\* half the power-of-two capacity, so an empty slot always exists.
C40_ProbingLoopsTerminate ==
    /\ HalfEmpty(table)
    /\ EveryProbeEnds(table)
    /\ \A id \in MapIds \cup StrangerIds :
          /\ find(table, id) \in MapOrders \cup {NULL}
          /\ HalfEmpty(remove(table, id))
          /\ EveryProbeEnds(remove(table, id))
    /\ \A id \in MapIds \ DOMAIN ref, order \in MapOrders :
          /\ HalfEmpty(put(table, id, order))
          /\ EveryProbeEnds(put(table, id, order))
    /\ HalfEmpty(resize(EntriesSeq(table), table.capacity_ * 2))

\* the fourth put has filled half of a table resized to 8 entries, with a
\* cluster that wraps around the table's end
C40_Witness ==
    /\ last.op = "put"
    /\ table.capacity_ = 4 * InitialCapacity
    /\ table.load_ * 2 = table.capacity_
    /\ table.entries_[table.mask_].id # 0
    /\ table.entries_[0].id # 0

====
